---- MODULE Spec2Model ----
(***************************************************************************)
(* Model of the CAM hole-recognition sample (cam-hole-recognition.ts):     *)
(* the hole classifier getHoleDetails with its helper isSegmentType, the   *)
(* unit normalization defaultUnits, and the aggregation loop of run; and   *)
(* of the wait for the upload in the extrude-text sample, the wait for the  *)
(* toolpaths in the NC-program posting script, and saveDocument.  Every     *)
(* script is a program of its own: pc, adskResult and error are the         *)
(* position, the adsk.result and the uncaught error of whichever script is  *)
(* running, ms and elapsed belong to whichever wait is running.             *)
(*                                                                         *)
(* A JavaScript object with optional properties (drill, counterBore) is    *)
(* a function whose DOMAIN is the set of properties that have been         *)
(* assigned: {} is the function with the empty domain.                     *)
(***************************************************************************)
EXTENDS Integers, Sequences, FiniteSets, TLC

\* groupIndex is the loop variable i of run.  camCalls is the record of the
\* calls run has made of createSetup and recognizeHoleGroups, in order, and
\* error holds the message of the error that ended run, if one did.
VARIABLES hole, result, segmentReads, pc, recHoleGroups, um, groupIndex, runResult, convertCalls, adskResult, bodies, camCalls, error

\* The loop body of run as one process per hole group: groupPc[k] is the
\* position of the process of group k (1-based) and groupResult[k] the
\* HoleDetails object of its own that it works on.
VARIABLES groupPc, groupResult

\* extrude-text.ts: adskParameters is adsk.parameters as given, parameters
\* the object parsed from it, exit the flag of the script, ms the parameter
\* of wait, elapsed the value of new Date().getTime() - start, and notifiedAt
\* when the dataFileComplete handler ran, if it has: the elapsed time then
\* (at) and at the beginning of the doEvents step that ran it (stepBegan),
\* both 0 for a handler that ran before wait was called.
VARIABLES adskParameters, parameters, exit, ms, elapsed, notifiedAt

\* The NC-program posting script: polls is the counter i of the wait for the
\* toolpaths, generationCompleted is future.isGenerationCompleted,
\* hasActiveJobs is app.hasActiveJobs, waitReturn is where the running
\* wait(ms) returns to, and ncCalls records the calls of cam.ncPrograms.add
\* and newprogram.postProcess.
VARIABLES polls, generationCompleted, hasActiveJobs, waitReturn, ncCalls

\* saveDocument: its arguments saveAsNewDocument and name, doc.isModified
\* at the call, the calls of doc.saveAs and doc.save it has made, and what
\* it returned.
VARIABLES saveAsNewDocument, saveName, isModified, docCalls, returned

vars == <<hole, result, segmentReads, pc, recHoleGroups, um, groupIndex, runResult, convertCalls, adskResult, bodies, camCalls, error, groupPc, groupResult, adskParameters, parameters, exit, ms, elapsed, notifiedAt, polls, generationCompleted, hasActiveJobs, waitReturn, ncCalls, saveAsNewDocument, saveName, isModified, docCalls, returned>>

\* The variables of the extrude-text script.
textVars == <<adskParameters, parameters, exit, ms, elapsed, notifiedAt>>

\* The variables of the NC-program posting script, ms and elapsed apart.
ncVars == <<polls, generationCompleted, hasActiveJobs, waitReturn, ncCalls>>

\* The variables of saveDocument.
saveVars == <<saveAsNewDocument, saveName, isModified, docCalls, returned>>

\* The variables of the scripts other than the hole recognition.
otherScripts == <<textVars, ncVars, saveVars>>

\* The variables the sequential run does not have.
besidesRun == <<groupPc, groupResult, otherScripts>>

\* The variables only the hole recognition has.
holeRecognitionVars == <<hole, result, segmentReads, recHoleGroups, um, groupIndex, runResult, convertCalls, bodies, camCalls, groupPc, groupResult>>

\* The variables the extrude-text script does not have.
besidesExtrudeText == <<holeRecognitionVars, ncVars, saveVars>>

\* The variables the NC-program posting script does not have.
besidesNcProgram == <<holeRecognitionVars, adskResult, adskParameters, parameters, exit, notifiedAt, saveVars>>

\* The variables saveDocument does not have.
besidesSaveDocument == <<holeRecognitionVars, adskResult, textVars, ncVars>>

\* The variables of run that a call of getHoleDetails leaves alone.
runVars == <<recHoleGroups, um, groupIndex, runResult, convertCalls, adskResult, bodies, camCalls>>

----------------------------------------------------------------------------
(* Bounds of the model.                                                    *)

\* Longest hole the geometry collaborator delivers (one past the cut-off).
MaxSegments == 5

\* Number of distinct dimension scales a hole is drawn with.
MaxDim == 2

\* Most hole groups recognizeHoleGroups delivers.
MaxGroups == 2

\* Most holes in one group.
MaxGroupSize == 2

\* Most bodies allBodies finds in the design.
MaxBodies == 2

\* Largest timeoutSeconds parameter given to the extrude-text script.
MaxTimeoutSeconds == 2

\* Longest a single adsk.doEvents() takes, in ticks of the clock.
MaxStepTicks == 3

----------------------------------------------------------------------------
(* The input: adsk.cam.RecognizedHole as getHoleDetails reads it.          *)

\* adsk.cam.HoleSegmentType, the three members isSegmentType compares with.
HoleSegmentType == {"HoleSegmentTypeCone", "HoleSegmentTypeCylinder", "HoleSegmentTypeFlat"}

\* The type names isSegmentType accepts as its third argument.
SegmentTypeNames == {"Cone", "Cylinder", "Flat"}

\* One segment of the hole at position index (0-based).  The classifier only
\* copies dimensions and never compares them, so the dimensions of a hole are
\* drawn so that every field of every segment has a value of its own: a copy
\* from the wrong segment or the wrong field is then visible in the result.
Segment(st, index, scale) == [holeSegmentType |-> st, topDiameter |-> 1000 * scale + 10 * index + 1, height |-> 1000 * scale + 10 * index + 2, halfAngle |-> 1000 * scale + 10 * index + 3]

\* The segment-type sequences of 1..MaxSegments segments.
SegmentTypeSeqs == UNION {[1..n -> HoleSegmentType] : n \in 1..MaxSegments}

\* A recognized hole: segmentCount is the number of its segments.
Hole(types, scale, len, through, threaded) == [segments |-> [i \in 1..Len(types) |-> Segment(types[i], i - 1, scale)], segmentCount |-> Len(types), totalLength |-> 1000 * len + 9, isThrough |-> through, isThreaded |-> threaded]

Holes == {Hole(types, scale, len, through, threaded) : types \in SegmentTypeSeqs, scale \in 1..MaxDim, len \in 1..MaxDim, through \in BOOLEAN, threaded \in BOOLEAN}

\* hole.segment(index), index 0-based.
segment(h, index) == h.segments[index + 1]

----------------------------------------------------------------------------
(* HoleDetails and the assignments to it.                                  *)

\* The object literal {}.
EmptyObject == [k \in {} |-> 0]

\* Variant of assign: a property that is already set keeps its first value.
assign_keepFirst(obj, key, val) == [k \in (DOMAIN obj) \cup {key} |-> IF k \in DOMAIN obj THEN obj[k] ELSE val]

\* obj.key = val
assign(obj, key, val) == [k \in (DOMAIN obj) \cup {key} |-> IF k = key THEN val ELSE obj[k]]

\* Variant of initialResult: the default label is spelt in lower case.
initialResult_lowerCase == [holeType |-> "unknown", drill |-> EmptyObject, counterBore |-> EmptyObject]

\* The result getHoleDetails starts from.
initialResult == [holeType |-> "Unknown", drill |-> EmptyObject, counterBore |-> EmptyObject]

\* result.drill.key = val
setDrill(r, key, val) == [r EXCEPT !.drill = assign(@, key, val)]

\* result.counterBore.key = val
setCounterBore(r, key, val) == [r EXCEPT !.counterBore = assign(@, key, val)]

\* result.holeType = label
setHoleType(r, label) == [r EXCEPT !.holeType = label]

----------------------------------------------------------------------------
(* isSegmentType                                                           *)

\* Variant of isSegmentType: the case "Flat" compares with the Cylinder member.
isSegmentType_flatAsCylinder(h, index, type) ==
  LET st == segment(h, index).holeSegmentType
  IN  CASE type = "Cone" -> st = "HoleSegmentTypeCone"
        [] type = "Cylinder" -> st = "HoleSegmentTypeCylinder"
        [] type = "Flat" -> st = "HoleSegmentTypeCylinder"
        [] OTHER -> FALSE

isSegmentType(h, index, type) ==
  LET st == segment(h, index).holeSegmentType
  IN  CASE type = "Cone" -> st = "HoleSegmentTypeCone"
        [] type = "Cylinder" -> st = "HoleSegmentTypeCylinder"
        [] type = "Flat" -> st = "HoleSegmentTypeFlat"
        [] OTHER -> FALSE

\* isSegmentType(hole, 0, p[1]) && isSegmentType(hole, 1, p[2]) && ...
isPattern(h, p) == \A i \in 1..Len(p) : isSegmentType(h, i - 1, p[i])

\* Variant of patternReads: the segments are read with 1-based indices.
patternReads_oneBased(h, p) == {i : i \in {j \in 1..Len(p) : \A k \in 1..(j - 1) : isSegmentType(h, k - 1, p[k])}}

\* The segments the && chain of isPattern reads: it stops at the first
\* segment that is not of the type asked for.
patternReads(h, p) == {i - 1 : i \in {j \in 1..Len(p) : \A k \in 1..(j - 1) : isSegmentType(h, k - 1, p[k])}}

\* The segments an if / else-if chain over the patterns ps reads: a pattern
\* is tried only when all the patterns before it failed.
chainReads(h, ps) == UNION {patternReads(h, ps[j]) : j \in {i \in 1..Len(ps) : \A k \in 1..(i - 1) : ~isPattern(h, ps[k])}}

----------------------------------------------------------------------------
(* getHoleDetails, one operator per branch of its segmentCount chain.       *)

\* Variant of oneSegment: "Through Hole" is decided by isThrough alone.
oneSegment_throughIgnoresThreaded(h, r) ==
  LET r1 == setDrill(r, "diameter", segment(h, 0).topDiameter)
      r2 == setDrill(r1, "depth", h.totalLength)
      r3 == setDrill(r2, "tipAngle", segment(h, 0).halfAngle * 2)
  IN  IF isSegmentType(h, 0, "Cone")
      THEN setHoleType(r3, "Spot Drill")
      ELSE IF isSegmentType(h, 0, "Cylinder")
           THEN IF h.isThrough
                THEN setHoleType(r3, "Through Hole")
                ELSE IF ~h.isThrough \/ h.isThreaded
                     THEN setHoleType(r3, "Blind Hole")
                     ELSE r3
           ELSE r3

\* Variant of oneSegment: drill.tipAngle is the half angle, not twice it.
oneSegment_halfAngle(h, r) ==
  LET r1 == setDrill(r, "diameter", segment(h, 0).topDiameter)
      r2 == setDrill(r1, "depth", h.totalLength)
      r3 == setDrill(r2, "tipAngle", segment(h, 0).halfAngle)
  IN  IF isSegmentType(h, 0, "Cone")
      THEN setHoleType(r3, "Spot Drill")
      ELSE IF isSegmentType(h, 0, "Cylinder")
           THEN IF h.isThrough /\ ~h.isThreaded
                THEN setHoleType(r3, "Through Hole")
                ELSE IF ~h.isThrough \/ h.isThreaded
                     THEN setHoleType(r3, "Blind Hole")
                     ELSE r3
           ELSE r3

\* Variant of oneSegment: a Cylinder is labelled only when it is narrower
\* than the hole is long.
oneSegment_wideIsUnknown(h, r) ==
  LET r1 == setDrill(r, "diameter", segment(h, 0).topDiameter)
      r2 == setDrill(r1, "depth", h.totalLength)
      r3 == setDrill(r2, "tipAngle", segment(h, 0).halfAngle * 2)
  IN  IF isSegmentType(h, 0, "Cone")
      THEN setHoleType(r3, "Spot Drill")
      ELSE IF isSegmentType(h, 0, "Cylinder") /\ segment(h, 0).topDiameter < h.totalLength
           THEN IF h.isThrough /\ ~h.isThreaded
                THEN setHoleType(r3, "Through Hole")
                ELSE IF ~h.isThrough \/ h.isThreaded
                     THEN setHoleType(r3, "Blind Hole")
                     ELSE r3
           ELSE r3

\* hole.segmentCount == 1
oneSegment(h, r) ==
  LET r1 == setDrill(r, "diameter", segment(h, 0).topDiameter)
      r2 == setDrill(r1, "depth", h.totalLength)
      r3 == setDrill(r2, "tipAngle", segment(h, 0).halfAngle * 2)
  IN  IF isSegmentType(h, 0, "Cone")
      THEN setHoleType(r3, "Spot Drill")
      ELSE IF isSegmentType(h, 0, "Cylinder")
           THEN IF h.isThrough /\ ~h.isThreaded
                THEN setHoleType(r3, "Through Hole")
                ELSE IF ~h.isThrough \/ h.isThreaded
                     THEN setHoleType(r3, "Blind Hole")
                     ELSE r3
           ELSE r3

\* Variant of twoSegments: [Cylinder, Cone] is labelled only when not through.
twoSegments_blindNeedsNotThrough(h, r) ==
  LET r1 == setDrill(r, "diameter", segment(h, 1).topDiameter)
      r2 == setDrill(r1, "depth", h.totalLength)
      r3 == setDrill(r2, "tipAngle", segment(h, 1).halfAngle * 2)
  IN  IF isSegmentType(h, 0, "Cone") /\ isSegmentType(h, 1, "Cylinder")
      THEN IF h.isThrough /\ h.isThreaded
           THEN setHoleType(r3, "CounterSink Through Hole with threaded")
           ELSE IF h.isThrough
                THEN setHoleType(r3, "CounterSink Through Hole")
                ELSE r3
      ELSE IF isSegmentType(h, 0, "Cylinder") /\ isSegmentType(h, 1, "Cylinder")
           THEN LET c1 == setCounterBore(r3, "diameter", segment(h, 0).topDiameter)
                    c2 == setCounterBore(c1, "length", segment(h, 0).height)
                IN  IF h.isThrough /\ h.isThreaded
                    THEN setHoleType(c2, "CounterBore Through Hole with threaded")
                    ELSE IF h.isThrough
                         THEN setHoleType(c2, "CounterBore Through Hole")
                         ELSE c2
           ELSE IF isSegmentType(h, 0, "Cylinder") /\ isSegmentType(h, 1, "Cone") /\ ~h.isThrough
                THEN IF h.isThreaded
                     THEN setHoleType(r3, "Non Flat Bottom Blind Hole with threaded")
                     ELSE setHoleType(r3, "Non Flat Bottom Blind Hole")
                ELSE r3

\* Variant of twoSegments: a [Cone, Cylinder] that is not through is labelled too.
twoSegments_blindFallback(h, r) ==
  LET r1 == setDrill(r, "diameter", segment(h, 1).topDiameter)
      r2 == setDrill(r1, "depth", h.totalLength)
      r3 == setDrill(r2, "tipAngle", segment(h, 1).halfAngle * 2)
  IN  IF isSegmentType(h, 0, "Cone") /\ isSegmentType(h, 1, "Cylinder")
      THEN IF h.isThrough /\ h.isThreaded
           THEN setHoleType(r3, "CounterSink Through Hole with threaded")
           ELSE IF h.isThrough
                THEN setHoleType(r3, "CounterSink Through Hole")
                ELSE setHoleType(r3, "CounterSink Blind Hole")
      ELSE IF isSegmentType(h, 0, "Cylinder") /\ isSegmentType(h, 1, "Cylinder")
           THEN LET c1 == setCounterBore(r3, "diameter", segment(h, 0).topDiameter)
                    c2 == setCounterBore(c1, "length", segment(h, 0).height)
                IN  IF h.isThrough /\ h.isThreaded
                    THEN setHoleType(c2, "CounterBore Through Hole with threaded")
                    ELSE IF h.isThrough
                         THEN setHoleType(c2, "CounterBore Through Hole")
                         ELSE c2
           ELSE IF isSegmentType(h, 0, "Cylinder") /\ isSegmentType(h, 1, "Cone")
                THEN IF h.isThreaded
                     THEN setHoleType(r3, "Non Flat Bottom Blind Hole with threaded")
                     ELSE setHoleType(r3, "Non Flat Bottom Blind Hole")
                ELSE r3

\* Variant of twoSegments: the counterBore of [Cylinder, Cylinder] is kept only
\* with a label.
twoSegments_counterBoreWhenThrough(h, r) ==
  LET r1 == setDrill(r, "diameter", segment(h, 1).topDiameter)
      r2 == setDrill(r1, "depth", h.totalLength)
      r3 == setDrill(r2, "tipAngle", segment(h, 1).halfAngle * 2)
  IN  IF isSegmentType(h, 0, "Cone") /\ isSegmentType(h, 1, "Cylinder")
      THEN IF h.isThrough /\ h.isThreaded
           THEN setHoleType(r3, "CounterSink Through Hole with threaded")
           ELSE IF h.isThrough
                THEN setHoleType(r3, "CounterSink Through Hole")
                ELSE r3
      ELSE IF isSegmentType(h, 0, "Cylinder") /\ isSegmentType(h, 1, "Cylinder")
           THEN LET c1 == setCounterBore(r3, "diameter", segment(h, 0).topDiameter)
                    c2 == setCounterBore(c1, "length", segment(h, 0).height)
                IN  IF h.isThrough /\ h.isThreaded
                    THEN setHoleType(c2, "CounterBore Through Hole with threaded")
                    ELSE IF h.isThrough
                         THEN setHoleType(c2, "CounterBore Through Hole")
                         ELSE r3
           ELSE IF isSegmentType(h, 0, "Cylinder") /\ isSegmentType(h, 1, "Cone")
                THEN IF h.isThreaded
                     THEN setHoleType(r3, "Non Flat Bottom Blind Hole with threaded")
                     ELSE setHoleType(r3, "Non Flat Bottom Blind Hole")
                ELSE r3

\* hole.segmentCount == 2
twoSegments(h, r) ==
  LET r1 == setDrill(r, "diameter", segment(h, 1).topDiameter)
      r2 == setDrill(r1, "depth", h.totalLength)
      r3 == setDrill(r2, "tipAngle", segment(h, 1).halfAngle * 2)
  IN  IF isSegmentType(h, 0, "Cone") /\ isSegmentType(h, 1, "Cylinder")
      THEN IF h.isThrough /\ h.isThreaded
           THEN setHoleType(r3, "CounterSink Through Hole with threaded")
           ELSE IF h.isThrough
                THEN setHoleType(r3, "CounterSink Through Hole")
                ELSE r3
      ELSE IF isSegmentType(h, 0, "Cylinder") /\ isSegmentType(h, 1, "Cylinder")
           THEN LET c1 == setCounterBore(r3, "diameter", segment(h, 0).topDiameter)
                    c2 == setCounterBore(c1, "length", segment(h, 0).height)
                IN  IF h.isThrough /\ h.isThreaded
                    THEN setHoleType(c2, "CounterBore Through Hole with threaded")
                    ELSE IF h.isThrough
                         THEN setHoleType(c2, "CounterBore Through Hole")
                         ELSE c2
           ELSE IF isSegmentType(h, 0, "Cylinder") /\ isSegmentType(h, 1, "Cone")
                THEN IF h.isThreaded
                     THEN setHoleType(r3, "Non Flat Bottom Blind Hole with threaded")
                     ELSE setHoleType(r3, "Non Flat Bottom Blind Hole")
                ELSE r3

\* Variant of threeSegments: the plain [Cylinder, Flat, Cylinder] label is spelt
\* with a capital T.
threeSegments_capitalThrough(h, r) ==
  LET r1 == setDrill(r, "diameter", segment(h, 1).topDiameter)
      r2 == setDrill(r1, "depth", h.totalLength)
  IN  IF isSegmentType(h, 0, "Cone") /\ isSegmentType(h, 1, "Cylinder") /\ isSegmentType(h, 2, "Flat")
      THEN IF h.isThreaded
           THEN setHoleType(r2, "CounterSink Blind Hole with threaded")
           ELSE setHoleType(r2, "CounterSink Blind Hole")
      ELSE IF isSegmentType(h, 0, "Cone") /\ isSegmentType(h, 1, "Cylinder") /\ isSegmentType(h, 2, "Cone")
           THEN LET t1 == setDrill(r2, "tipAngle", segment(h, 2).halfAngle * 2)
                IN  IF h.isThreaded
                    THEN setHoleType(t1, "Non Flat Bottom CounterSink Blind Hole with threaded")
                    ELSE setHoleType(t1, "Non Flat Bottom CounterSink Blind Hole")
           ELSE IF isSegmentType(h, 0, "Cylinder") /\ isSegmentType(h, 1, "Flat") /\ isSegmentType(h, 2, "Cylinder")
                THEN LET c1 == setCounterBore(r2, "diameter", segment(h, 0).topDiameter)
                         c2 == setCounterBore(c1, "length", segment(h, 0).height)
                         c3 == setDrill(c2, "diameter", segment(h, 2).topDiameter)
                     IN  IF h.isThreaded
                         THEN setHoleType(c3, "CounterBore through Hole with threaded")
                         ELSE setHoleType(c3, "CounterBore Through Hole")
                ELSE r2

\* hole.segmentCount == 3
threeSegments(h, r) ==
  LET r1 == setDrill(r, "diameter", segment(h, 1).topDiameter)
      r2 == setDrill(r1, "depth", h.totalLength)
  IN  IF isSegmentType(h, 0, "Cone") /\ isSegmentType(h, 1, "Cylinder") /\ isSegmentType(h, 2, "Flat")
      THEN IF h.isThreaded
           THEN setHoleType(r2, "CounterSink Blind Hole with threaded")
           ELSE setHoleType(r2, "CounterSink Blind Hole")
      ELSE IF isSegmentType(h, 0, "Cone") /\ isSegmentType(h, 1, "Cylinder") /\ isSegmentType(h, 2, "Cone")
           THEN LET t1 == setDrill(r2, "tipAngle", segment(h, 2).halfAngle * 2)
                IN  IF h.isThreaded
                    THEN setHoleType(t1, "Non Flat Bottom CounterSink Blind Hole with threaded")
                    ELSE setHoleType(t1, "Non Flat Bottom CounterSink Blind Hole")
           ELSE IF isSegmentType(h, 0, "Cylinder") /\ isSegmentType(h, 1, "Flat") /\ isSegmentType(h, 2, "Cylinder")
                THEN LET c1 == setCounterBore(r2, "diameter", segment(h, 0).topDiameter)
                         c2 == setCounterBore(c1, "length", segment(h, 0).height)
                         c3 == setDrill(c2, "diameter", segment(h, 2).topDiameter)
                     IN  IF h.isThreaded
                         THEN setHoleType(c3, "CounterBore through Hole with threaded")
                         ELSE setHoleType(c3, "CounterBore through Hole")
                ELSE r2

\* Variant of fourSegments: the first pattern does not test segment 3.
fourSegments_noFourthCheck(h, r) ==
  LET r1 == setDrill(r, "depth", h.totalLength)
  IN  IF isSegmentType(h, 0, "Cylinder") /\ isSegmentType(h, 1, "Flat") /\ isSegmentType(h, 2, "Cylinder")
      THEN LET c1 == setCounterBore(r1, "diameter", segment(h, 0).topDiameter)
               c2 == setCounterBore(c1, "length", segment(h, 0).height)
               c3 == setDrill(c2, "diameter", segment(h, 2).topDiameter)
           IN  IF h.isThreaded
               THEN setHoleType(c3, "CounterBore Blind Hole with threaded")
               ELSE setHoleType(c3, "CounterBore Blind Hole")
      ELSE IF isSegmentType(h, 0, "Cylinder") /\ isSegmentType(h, 1, "Flat") /\ isSegmentType(h, 2, "Cylinder") /\ isSegmentType(h, 3, "Cone")
           THEN LET c1 == setCounterBore(r1, "diameter", segment(h, 0).topDiameter)
                    c2 == setCounterBore(c1, "length", segment(h, 0).height)
                    c3 == setDrill(c2, "diameter", segment(h, 2).topDiameter)
                    c4 == setDrill(c3, "tipAngle", segment(h, 3).halfAngle * 2)
                IN  IF h.isThreaded
                    THEN setHoleType(c4, "Non Flat Bottom CounterBore Blind Hole with threaded")
                    ELSE setHoleType(c4, "Non Flat Bottom CounterBore Blind Hole")
           ELSE r1

\* Variant of fourSegments: the labelled patterns leave drill.diameter out.
fourSegments_noDrillDiameter(h, r) ==
  LET r1 == setDrill(r, "depth", h.totalLength)
  IN  IF isSegmentType(h, 0, "Cylinder") /\ isSegmentType(h, 1, "Flat") /\ isSegmentType(h, 2, "Cylinder") /\ isSegmentType(h, 3, "Flat")
      THEN LET c1 == setCounterBore(r1, "diameter", segment(h, 0).topDiameter)
               c2 == setCounterBore(c1, "length", segment(h, 0).height)
           IN  IF h.isThreaded
               THEN setHoleType(c2, "CounterBore Blind Hole with threaded")
               ELSE setHoleType(c2, "CounterBore Blind Hole")
      ELSE IF isSegmentType(h, 0, "Cylinder") /\ isSegmentType(h, 1, "Flat") /\ isSegmentType(h, 2, "Cylinder") /\ isSegmentType(h, 3, "Cone")
           THEN LET c1 == setCounterBore(r1, "diameter", segment(h, 0).topDiameter)
                    c2 == setCounterBore(c1, "length", segment(h, 0).height)
                    c4 == setDrill(c2, "tipAngle", segment(h, 3).halfAngle * 2)
                IN  IF h.isThreaded
                    THEN setHoleType(c4, "Non Flat Bottom CounterBore Blind Hole with threaded")
                    ELSE setHoleType(c4, "Non Flat Bottom CounterBore Blind Hole")
           ELSE r1

\* hole.segmentCount === 4
fourSegments(h, r) ==
  LET r1 == setDrill(r, "depth", h.totalLength)
  IN  IF isSegmentType(h, 0, "Cylinder") /\ isSegmentType(h, 1, "Flat") /\ isSegmentType(h, 2, "Cylinder") /\ isSegmentType(h, 3, "Flat")
      THEN LET c1 == setCounterBore(r1, "diameter", segment(h, 0).topDiameter)
               c2 == setCounterBore(c1, "length", segment(h, 0).height)
               c3 == setDrill(c2, "diameter", segment(h, 2).topDiameter)
           IN  IF h.isThreaded
               THEN setHoleType(c3, "CounterBore Blind Hole with threaded")
               ELSE setHoleType(c3, "CounterBore Blind Hole")
      ELSE IF isSegmentType(h, 0, "Cylinder") /\ isSegmentType(h, 1, "Flat") /\ isSegmentType(h, 2, "Cylinder") /\ isSegmentType(h, 3, "Cone")
           THEN LET c1 == setCounterBore(r1, "diameter", segment(h, 0).topDiameter)
                    c2 == setCounterBore(c1, "length", segment(h, 0).height)
                    c3 == setDrill(c2, "diameter", segment(h, 2).topDiameter)
                    c4 == setDrill(c3, "tipAngle", segment(h, 3).halfAngle * 2)
                IN  IF h.isThreaded
                    THEN setHoleType(c4, "Non Flat Bottom CounterBore Blind Hole with threaded")
                    ELSE setHoleType(c4, "Non Flat Bottom CounterBore Blind Hole")
           ELSE r1

\* Variant of getHoleDetails: no cut-off, and the chain ends in a plain else.
getHoleDetails_noCutOff(h) ==
  IF h.segmentCount = 1 THEN oneSegment(h, initialResult)
       ELSE IF h.segmentCount = 2 THEN twoSegments(h, initialResult)
       ELSE IF h.segmentCount = 3 THEN threeSegments(h, initialResult)
       ELSE fourSegments(h, initialResult)

\* The whole function: the cut-off, then the segmentCount chain.
getHoleDetails(h) ==
  IF h.segmentCount > 4
  THEN initialResult
  ELSE IF h.segmentCount = 1 THEN oneSegment(h, initialResult)
       ELSE IF h.segmentCount = 2 THEN twoSegments(h, initialResult)
       ELSE IF h.segmentCount = 3 THEN threeSegments(h, initialResult)
       ELSE IF h.segmentCount = 4 THEN fourSegments(h, initialResult)
       ELSE initialResult

\* The indices i of the calls hole.segment(i) that getHoleDetails makes,
\* directly and through isSegmentType, on the path it takes for h.
segmentsRead(h) ==
  IF h.segmentCount > 4
  THEN {}
  ELSE IF h.segmentCount = 1 THEN {0}
       ELSE IF h.segmentCount = 2 THEN {1} \cup chainReads(h, <<<<"Cone", "Cylinder">>, <<"Cylinder", "Cylinder">>, <<"Cylinder", "Cone">>>>)
       ELSE IF h.segmentCount = 3 THEN {1} \cup chainReads(h, <<<<"Cone", "Cylinder", "Flat">>, <<"Cone", "Cylinder", "Cone">>, <<"Cylinder", "Flat", "Cylinder">>>>)
       ELSE IF h.segmentCount = 4 THEN chainReads(h, <<<<"Cylinder", "Flat", "Cylinder", "Flat">>, <<"Cylinder", "Flat", "Cylinder", "Cone">>>>)
       ELSE {}

----------------------------------------------------------------------------
(* defaultUnits and the units manager it is given.                         *)

\* design.unitsManager: a manager whose internal unit is the centimetre and
\* whose default length unit is the document's, or no manager at all (null).
UnitsManagers == {[isNull |-> FALSE, internalUnits |-> "cm", defaultLengthUnits |-> u] : u \in {"cm", "mm"}} \cup {[isNull |-> TRUE]}

\* How many of the unit u make one centimetre.
perCentimetre(u) == IF u = "mm" THEN 10 ELSE 1

\* um.convert(value, from, to)
convert(value, from, to) == (value * perCentimetre(to)) \div perCentimetre(from)

\* Reading obj.key: the set holding its value, empty when it reads undefined.
prop(obj, key) == IF key \in DOMAIN obj THEN {obj[key]} ELSE {}

\* obj.key = opt, where opt is a value read by prop: after the assignment of
\* undefined the property reads undefined, as it does when it was never set.
assignOptional(obj, key, opt) == IF opt = {} THEN [k \in (DOMAIN obj) \ {key} |-> obj[k]] ELSE assign(obj, key, CHOOSE v \in opt : TRUE)

\* Variant of convertLength: an undefined length comes back as 0.
convertLength_zeroForUndefined(m, l) == IF l = {} THEN {0} ELSE {convert(v, m.internalUnits, m.defaultLengthUnits) : v \in l}

\* convertLength(l) for a usable manager m: undefined stays undefined.
convertLength(m, l) == {convert(v, m.internalUnits, m.defaultLengthUnits) : v \in l}

\* Variant of convertAngle: the angle in degrees is capped at 180.
convertAngle_capped(a) == {IF (v * 4068) \div 71 > 180 THEN 180 ELSE (v * 4068) \div 71 : v \in a}

\* convertAngle(a): a * (180 / Math.PI), with Math.PI taken as 355 / 113, so
\* 180 / Math.PI as 4068 / 71, and the product cut to the integer grid of
\* the model.
convertAngle(a) == {(v * 4068) \div 71 : v \in a}

\* Variant of defaultUnitsStatement: without a manager the length is kept as
\* it is (um?.convert(...) ?? l) instead of the call throwing.
defaultUnitsStatement_passThrough(st, m, obj, key, isLength) ==
  LET l == prop(st.h[obj], key)
  IN  IF st.threw
      THEN st
      ELSE IF isLength /\ l # {} /\ m.isNull
           THEN st
           ELSE [h |-> [st.h EXCEPT ![obj] = assignOptional(@, key, IF isLength THEN convertLength(m, l) ELSE convertAngle(l))],
                 calls |-> IF isLength /\ l # {} THEN Append(st.calls, <<CHOOSE v \in l : TRUE, m.internalUnits, m.defaultLengthUnits>>) ELSE st.calls,
                 threw |-> FALSE]

\* One statement h.obj.key = convertLength(h.obj.key) (isLength) or
\* h.obj.key = convertAngle(h.obj.key) of defaultUnits, run from the state st
\* of the call: the object h, the calls of um.convert made so far, and
\* whether an earlier statement threw.  um.convert on a null manager throws.
defaultUnitsStatement(st, m, obj, key, isLength) ==
  LET l == prop(st.h[obj], key)
  IN  IF st.threw
      THEN st
      ELSE IF isLength /\ l # {} /\ m.isNull
           THEN [st EXCEPT !.threw = TRUE]
           ELSE [h |-> [st.h EXCEPT ![obj] = assignOptional(@, key, IF isLength THEN convertLength(m, l) ELSE convertAngle(l))],
                 calls |-> IF isLength /\ l # {} THEN Append(st.calls, <<CHOOSE v \in l : TRUE, m.internalUnits, m.defaultLengthUnits>>) ELSE st.calls,
                 threw |-> FALSE]

\* Variant of defaultUnits: drill.tipAngle goes through convertLength too.
defaultUnits_angleAsLength(h, m) ==
  LET s0 == [h |-> h, calls |-> <<>>, threw |-> FALSE]
      s1 == defaultUnitsStatement(s0, m, "drill", "diameter", TRUE)
      s2 == defaultUnitsStatement(s1, m, "drill", "depth", TRUE)
      s3 == defaultUnitsStatement(s2, m, "drill", "tipAngle", TRUE)
      s4 == defaultUnitsStatement(s3, m, "counterBore", "diameter", TRUE)
      s5 == defaultUnitsStatement(s4, m, "counterBore", "length", TRUE)
  IN  s5

\* defaultUnits(h, um): its five statements in order.  h is changed in place
\* and returned; calls and threw record what the call did besides.
defaultUnits(h, m) ==
  LET s0 == [h |-> h, calls |-> <<>>, threw |-> FALSE]
      s1 == defaultUnitsStatement(s0, m, "drill", "diameter", TRUE)
      s2 == defaultUnitsStatement(s1, m, "drill", "depth", TRUE)
      s3 == defaultUnitsStatement(s2, m, "drill", "tipAngle", FALSE)
      s4 == defaultUnitsStatement(s3, m, "counterBore", "diameter", TRUE)
      s5 == defaultUnitsStatement(s4, m, "counterBore", "length", TRUE)
  IN  s5

----------------------------------------------------------------------------
(* The hole groups run iterates over.                                      *)

\* A recognized hole group of n holes: first is member 0, rest every other.
HoleGroup(first, rest, n) == [members |-> [k \in 1..n |-> IF k = 1 THEN first ELSE rest]]

\* holeGroup.item(k), k 0-based.
item(holeGroup, k) == holeGroup.members[k + 1]

\* holeGroup.count
count(holeGroup) == Len(holeGroup.members)

\* The holes the groups of a whole run are made of: a blind single cylinder
\* (three drill fields, no counterBore) and a threaded counterbored hole with
\* a conical bottom (all five fields).
RunHoles == {Hole(<<"HoleSegmentTypeCylinder">>, 1, 1, FALSE, FALSE), Hole(<<"HoleSegmentTypeCylinder", "HoleSegmentTypeFlat", "HoleSegmentTypeCylinder", "HoleSegmentTypeCone">>, MaxDim, MaxDim, FALSE, TRUE)}

RunGroups == {HoleGroup(first, rest, n) : first \in RunHoles, rest \in RunHoles, n \in 1..MaxGroupSize}

\* What recognizeHoleGroups may deliver to a whole run: 0..MaxGroups groups.
RunInputs == UNION {[1..g -> RunGroups] : g \in 0..MaxGroups}

\* The holes of every segment pattern and flag combination, at one scale.
UnitHoles == {Hole(types, 1, MaxDim, through, threaded) : types \in SegmentTypeSeqs, through \in BOOLEAN, threaded \in BOOLEAN}

\* One group of MaxGroupSize equal holes, for each hole of UnitHoles.
UnitInputs == {<<HoleGroup(h, h, MaxGroupSize)>> : h \in UnitHoles}

\* The value of the variable hole while no hole has been fetched.
NoHole == [segments |-> <<>>, segmentCount |-> 0, totalLength |-> 0, isThrough |-> FALSE, isThreaded |-> FALSE]

\* JSON.stringify(v): the JSON value tree that the string spells out.
stringify(v) == [json |-> v]

\* What allBodies(design.rootComponent) may return: 0..MaxBodies bodies, each
\* known by its number.
BodyLists == {[k \in 1..n |-> k] : n \in 0..MaxBodies}

\* The call createSetup(name, body) as camCalls records it.
createSetupCall(name, body) == [op |-> "createSetup", name |-> name, body |-> <<body>>, bodies |-> <<>>]

\* The call adsk.cam.RecognizedHoleGroup.recognizeHoleGroups(bs).
recognizeHoleGroupsCall(bs) == [op |-> "recognizeHoleGroups", name |-> "", body |-> <<>>, bodies |-> bs]

\* The error a property read or a method call on null or undefined throws.
TypeError == "TypeError"

\* The extrude-text script is not running.
ExtrudeTextIdle ==
  /\ adskParameters = EmptyObject
  /\ parameters = EmptyObject
  /\ exit = FALSE
  /\ ms = 0
  /\ elapsed = 0
  /\ notifiedAt = <<>>

\* The NC-program posting script is not running.
NcProgramIdle ==
  /\ polls = 0
  /\ generationCompleted = FALSE
  /\ hasActiveJobs = FALSE
  /\ waitReturn = ""
  /\ ncCalls = <<>>

\* saveDocument is not running.
SaveDocumentIdle ==
  /\ saveAsNewDocument = "undefined"
  /\ saveName = {}
  /\ isModified = FALSE
  /\ docCalls = <<>>
  /\ returned = <<>>

\* The hole recognition is not running.
HoleRecognitionIdle ==
  /\ hole = NoHole
  /\ result = initialResult
  /\ segmentReads = {}
  /\ recHoleGroups = <<>>
  /\ um = [isNull |-> TRUE]
  /\ groupIndex = 0
  /\ runResult = <<>>
  /\ convertCalls = <<>>
  /\ bodies = <<>>
  /\ camCalls = <<>>
  /\ groupPc = <<>>
  /\ groupResult = <<>>

----------------------------------------------------------------------------
(* The state machines.                                                     *)

\* One call of getHoleDetails, entered with any hole of the bounded input
\* set; run is not in progress.
Init ==
  /\ hole \in Holes
  /\ result = initialResult
  /\ segmentReads = {}
  /\ pc = "called"
  /\ recHoleGroups = <<>>
  /\ um = [isNull |-> TRUE]
  /\ groupIndex = 0
  /\ runResult = <<>>
  /\ convertCalls = <<>>
  /\ adskResult = <<>>
  /\ bodies = <<>>
  /\ camCalls = <<>>
  /\ error = <<>>
  /\ groupPc = <<>>
  /\ groupResult = <<>>
  /\ ExtrudeTextIdle
  /\ NcProgramIdle
  /\ SaveDocumentIdle

\* run has found one body and created the setup on it; groups is what
\* recognizeHoleGroups is about to deliver.
InitOf(groups) ==
  /\ hole = NoHole
  /\ result = initialResult
  /\ segmentReads = {}
  /\ pc = "run"
  /\ recHoleGroups = groups
  /\ um \in UnitsManagers
  /\ groupIndex = 0
  /\ runResult = <<>>
  /\ convertCalls = <<>>
  /\ adskResult = <<>>
  /\ bodies = <<1>>
  /\ camCalls = <<createSetupCall("My setup", 1)>>
  /\ error = <<>>
  /\ groupPc = <<>>
  /\ groupResult = <<>>
  /\ ExtrudeTextIdle
  /\ NcProgramIdle
  /\ SaveDocumentIdle

InitRun == \E groups \in RunInputs : InitOf(groups)

InitUnits == \E groups \in UnitInputs : InitOf(groups)

\* getHoleDetails runs to its return statement; hole.segment(index) of a
\* segment the hole does not have yields no object, and reading a property
\* of it throws.
GetHoleDetails ==
  /\ pc = "called"
  /\ segmentReads' = segmentsRead(hole)
  /\ IF segmentsRead(hole) \subseteq 0..(hole.segmentCount - 1)
     THEN result' = getHoleDetails(hole) /\ pc' = "returned" /\ error' = error
     ELSE result' = result /\ pc' = "threw" /\ error' = <<TypeError>>
  /\ UNCHANGED hole
  /\ UNCHANGED runVars
  /\ UNCHANGED besidesRun

\* const recHoleGroups = ...; const result = []; let i = 0
RecognizeHoleGroups ==
  /\ pc = "run"
  /\ groupIndex' = 0
  /\ runResult' = <<>>
  /\ pc' = "loop"
  /\ camCalls' = Append(camCalls, recognizeHoleGroupsCall(bodies))
  /\ UNCHANGED <<hole, result, segmentReads, recHoleGroups, um, convertCalls, adskResult, bodies, error>>
  /\ UNCHANGED besidesRun

\* Variant of LoopBody: the hole classified is the group's last member.
LoopBody_lastMember ==
  /\ pc = "loop"
  /\ groupIndex < Len(recHoleGroups)
  /\ hole' = item(recHoleGroups[groupIndex + 1], count(recHoleGroups[groupIndex + 1]) - 1)
  /\ result' = initialResult
  /\ segmentReads' = {}
  /\ pc' = "called"
  /\ UNCHANGED runVars
  /\ UNCHANGED error
  /\ UNCHANGED besidesRun

\* i < recHoleGroups.count: holeGroup = recHoleGroups.item(i), hole =
\* holeGroup.item(0), and getHoleDetails(hole) is entered.
LoopBody ==
  /\ pc = "loop"
  /\ groupIndex < Len(recHoleGroups)
  /\ hole' = item(recHoleGroups[groupIndex + 1], 0)
  /\ result' = initialResult
  /\ segmentReads' = {}
  /\ pc' = "called"
  /\ UNCHANGED runVars
  /\ UNCHANGED error
  /\ UNCHANGED besidesRun

\* Variant of DefaultUnits: defaultUnits converts a copy of the object, and
\* the object getHoleDetails returned stays as it was.
DefaultUnits_onCopy ==
  /\ pc = "returned"
  /\ LET out == defaultUnits(result, um)
     IN  /\ result' = result
         /\ convertCalls' = out.calls
         /\ pc' = IF out.threw THEN "threw" ELSE "normalized"
         /\ error' = IF out.threw THEN <<TypeError>> ELSE error
  /\ UNCHANGED <<hole, segmentReads, recHoleGroups, um, groupIndex, runResult, adskResult, bodies, camCalls>>
  /\ UNCHANGED besidesRun

\* defaultUnits(<the result of getHoleDetails>, design.unitsManager): result
\* is the object getHoleDetails returned; defaultUnits assigns to its
\* properties and returns it, so holeInfo of run is that same object.
DefaultUnits ==
  /\ pc = "returned"
  /\ LET out == defaultUnits(result, um)
     IN  /\ result' = out.h
         /\ convertCalls' = out.calls
         /\ pc' = IF out.threw THEN "threw" ELSE "normalized"
         /\ error' = IF out.threw THEN <<TypeError>> ELSE error
  /\ UNCHANGED <<hole, segmentReads, recHoleGroups, um, groupIndex, runResult, adskResult, bodies, camCalls>>
  /\ UNCHANGED besidesRun

\* Variant of AssignHoleCount: the count is that of the first group.
AssignHoleCount_firstGroup ==
  /\ pc = "normalized"
  /\ result' = assign(result, "holeCount", count(recHoleGroups[1]))
  /\ pc' = "counted"
  /\ UNCHANGED <<hole, segmentReads, recHoleGroups, um, groupIndex, runResult, convertCalls, adskResult, bodies, camCalls, error>>
  /\ UNCHANGED besidesRun

\* holeInfo.holeCount = holeGroup.count
AssignHoleCount ==
  /\ pc = "normalized"
  /\ result' = assign(result, "holeCount", count(recHoleGroups[groupIndex + 1]))
  /\ pc' = "counted"
  /\ UNCHANGED <<hole, segmentReads, recHoleGroups, um, groupIndex, runResult, convertCalls, adskResult, bodies, camCalls, error>>
  /\ UNCHANGED besidesRun

\* Variant of Push: the new result is put in front of the array.
Push_unshift ==
  /\ pc = "counted"
  /\ runResult' = <<result>> \o runResult
  /\ groupIndex' = groupIndex + 1
  /\ pc' = "loop"
  /\ UNCHANGED <<hole, result, segmentReads, recHoleGroups, um, convertCalls, adskResult, bodies, camCalls, error>>
  /\ UNCHANGED besidesRun

\* result.push(holeInfo); i++
Push ==
  /\ pc = "counted"
  /\ runResult' = Append(runResult, result)
  /\ groupIndex' = groupIndex + 1
  /\ pc' = "loop"
  /\ UNCHANGED <<hole, result, segmentReads, recHoleGroups, um, convertCalls, adskResult, bodies, camCalls, error>>
  /\ UNCHANGED besidesRun

\* The loop is left: adsk.result = JSON.stringify({ holes: result })
SetAdskResult ==
  /\ pc = "loop"
  /\ groupIndex >= Len(recHoleGroups)
  /\ adskResult' = <<stringify([holes |-> runResult])>>
  /\ pc' = "done"
  /\ UNCHANGED <<hole, result, segmentReads, recHoleGroups, um, groupIndex, runResult, convertCalls, bodies, camCalls, error>>
  /\ UNCHANGED besidesRun

\* run has its design, and allBodies is about to deliver bodies.
InitStart ==
  /\ hole = NoHole
  /\ result = initialResult
  /\ segmentReads = {}
  /\ pc = "start"
  /\ recHoleGroups \in RunInputs
  /\ um \in UnitsManagers
  /\ groupIndex = 0
  /\ runResult = <<>>
  /\ convertCalls = <<>>
  /\ adskResult = <<>>
  /\ bodies \in BodyLists
  /\ camCalls = <<>>
  /\ error = <<>>
  /\ groupPc = <<>>
  /\ groupResult = <<>>
  /\ ExtrudeTextIdle
  /\ NcProgramIdle
  /\ SaveDocumentIdle

\* Variant of CheckBodies: a design without bodies is reported as a design
\* without holes.
CheckBodies_emptyResult ==
  /\ pc = "start"
  /\ IF Len(bodies) = 0
     THEN pc' = "done" /\ adskResult' = <<stringify([holes |-> <<>>])>>
     ELSE pc' = "setup" /\ adskResult' = adskResult
  /\ UNCHANGED <<hole, result, segmentReads, recHoleGroups, um, groupIndex, runResult, convertCalls, bodies, camCalls, error>>
  /\ UNCHANGED besidesRun

\* if (bodies.length == 0) throw Error("There are no bodies in the design.")
CheckBodies ==
  /\ pc = "start"
  /\ IF Len(bodies) = 0
     THEN pc' = "threw" /\ error' = <<"There are no bodies in the design.">>
     ELSE pc' = "setup" /\ error' = error
  /\ UNCHANGED <<hole, result, segmentReads, recHoleGroups, um, groupIndex, runResult, convertCalls, adskResult, bodies, camCalls>>
  /\ UNCHANGED besidesRun

\* createSetup("My setup", bodies[0]): it returns, or it throws because the
\* document has no CAM product.
CreateSetup ==
  /\ pc = "setup"
  /\ camCalls' = Append(camCalls, createSetupCall("My setup", bodies[1]))
  /\ \/ pc' = "run" /\ error' = error
     \/ pc' = "threw" /\ error' = <<"No CAM product.">>
  /\ UNCHANGED <<hole, result, segmentReads, recHoleGroups, um, groupIndex, runResult, convertCalls, adskResult, bodies>>
  /\ UNCHANGED besidesRun

\* The groups of the interleaved run: one group per hole of RunHoles, a
\* single hole or MaxGroupSize of them.
InterleavedGroups == {HoleGroup(h, h, IF h.segmentCount = 1 THEN 1 ELSE MaxGroupSize) : h \in RunHoles}

InterleavedInputs == [1..MaxGroups -> InterleavedGroups]

\* The sequential run at recognizeHoleGroups, and beside it one process per
\* group, each about to run the loop body for its group.
InitInterleaved ==
  /\ hole = NoHole
  /\ result = initialResult
  /\ segmentReads = {}
  /\ pc = "run"
  /\ recHoleGroups \in InterleavedInputs
  /\ um \in UnitsManagers
  /\ groupIndex = 0
  /\ runResult = <<>>
  /\ convertCalls = <<>>
  /\ adskResult = <<>>
  /\ bodies = <<1>>
  /\ camCalls = <<createSetupCall("My setup", 1)>>
  /\ error = <<>>
  /\ groupPc = [k \in 1..Len(recHoleGroups) |-> "loop"]
  /\ groupResult = [k \in 1..Len(recHoleGroups) |-> initialResult]
  /\ ExtrudeTextIdle
  /\ NcProgramIdle
  /\ SaveDocumentIdle

\* Variant of GroupGetHoleDetails: the processes share one result object.
GroupGetHoleDetails_sharedResult(k) ==
  /\ groupPc[k] = "loop"
  /\ segmentsRead(item(recHoleGroups[k], 0)) \subseteq 0..(item(recHoleGroups[k], 0).segmentCount - 1)
  /\ groupResult' = [j \in DOMAIN groupResult |-> getHoleDetails(item(recHoleGroups[k], 0))]
  /\ groupPc' = [groupPc EXCEPT ![k] = "returned"]
  /\ UNCHANGED <<hole, result, segmentReads, pc, recHoleGroups, um, groupIndex, runResult, convertCalls, adskResult, bodies, camCalls, error>>
  /\ UNCHANGED otherScripts

\* The process of group k: holeGroup = recHoleGroups.item(k - 1), hole =
\* holeGroup.item(0), getHoleDetails(hole) on a result object of its own.
GroupGetHoleDetails(k) ==
  /\ groupPc[k] = "loop"
  /\ segmentsRead(item(recHoleGroups[k], 0)) \subseteq 0..(item(recHoleGroups[k], 0).segmentCount - 1)
  /\ groupResult' = [groupResult EXCEPT ![k] = getHoleDetails(item(recHoleGroups[k], 0))]
  /\ groupPc' = [groupPc EXCEPT ![k] = "returned"]
  /\ UNCHANGED <<hole, result, segmentReads, pc, recHoleGroups, um, groupIndex, runResult, convertCalls, adskResult, bodies, camCalls, error>>
  /\ UNCHANGED otherScripts

\* The process of group k: defaultUnits(<its result>, design.unitsManager)
GroupDefaultUnits(k) ==
  /\ groupPc[k] = "returned"
  /\ LET out == defaultUnits(groupResult[k], um)
     IN  /\ groupResult' = [groupResult EXCEPT ![k] = out.h]
         /\ groupPc' = [groupPc EXCEPT ![k] = IF out.threw THEN "threw" ELSE "normalized"]
         /\ error' = IF out.threw THEN <<TypeError>> ELSE error
  /\ UNCHANGED <<hole, result, segmentReads, pc, recHoleGroups, um, groupIndex, runResult, convertCalls, adskResult, bodies, camCalls>>
  /\ UNCHANGED otherScripts

\* The process of group k: holeInfo.holeCount = holeGroup.count
GroupAssignHoleCount(k) ==
  /\ groupPc[k] = "normalized"
  /\ groupResult' = [groupResult EXCEPT ![k] = assign(@, "holeCount", count(recHoleGroups[k]))]
  /\ groupPc' = [groupPc EXCEPT ![k] = "counted"]
  /\ UNCHANGED <<hole, result, segmentReads, pc, recHoleGroups, um, groupIndex, runResult, convertCalls, adskResult, bodies, camCalls, error>>
  /\ UNCHANGED otherScripts

Next == GetHoleDetails

RunNext == RecognizeHoleGroups \/ LoopBody \/ GetHoleDetails \/ DefaultUnits \/ AssignHoleCount \/ Push \/ SetAdskResult

StartNext == CheckBodies \/ CreateSetup \/ RunNext

GroupNext == \E k \in DOMAIN groupPc : GroupGetHoleDetails(k) \/ GroupDefaultUnits(k) \/ GroupAssignHoleCount(k)

InterleavedNext == RunNext \/ GroupNext

\* One call of getHoleDetails on any hole.
Spec == Init /\ [][Next]_vars

\* run from recognizeHoleGroups on, over groups of the holes of RunHoles.
SpecRun == InitRun /\ [][RunNext]_vars

\* run over one group, of any hole pattern.
SpecUnits == InitUnits /\ [][RunNext]_vars

\* run from the bodies check on.
SpecStart == InitStart /\ [][StartNext]_vars

\* The sequential run, and the loop body run for every group by a process
\* of its own, all of them interleaved step by step in any order.
SpecInterleaved == InitInterleaved /\ [][InterleavedNext]_vars

----------------------------------------------------------------------------
(* extrude-text.ts: run and wait.                                          *)

\* The resolution of the clock new Date().getTime() is read with, in
\* milliseconds: every time of the model is a multiple of it.
TickMs == 500

\* parameters.timeoutSeconds when the parameter is missing or falsy.
DefaultTimeoutSeconds == 20

\* The parameter objects the script is given: text and fileName missing,
\* empty or set, timeoutSeconds missing or a number from -1 on.
ExtrudeTextParameters == {assignOptional(assignOptional(assignOptional(EmptyObject, "text", t), "fileName", f), "timeoutSeconds", n) : t \in {{}, {""}, {"Hello"}}, f \in {{}, {"part"}}, n \in {{}} \cup {{v} : v \in -1..MaxTimeoutSeconds}}

\* !s for a string property read by prop: undefined and "" are falsy.
falsyString(opt) == opt = {} \/ opt = {""}

\* !n for a number property read by prop: undefined and 0 are falsy.
falsyNumber(opt) == opt = {} \/ opt = {0}

\* The messages of the errors run throws between reading the parameters and
\* saving the document.
ExtrudeTextErrors == {"No asdk.core.Application.", "Unable to create sketch.", "Unable to create points.", "Unable to create sketch texts.", "Unable to create extrude distance.", "Extrusion failed.", "Extrude has no body."}

\* How long one adsk.doEvents() may take.
StepDurations == {TickMs * k : k \in 1..MaxStepTicks}

\* The times of the clock from begin to end.
TimesBetween(begin, end) == {t \in begin..end : t % TickMs = 0}

\* The script is started with its parameters; nothing has run.
InitExtrudeText ==
  /\ hole = NoHole
  /\ result = initialResult
  /\ segmentReads = {}
  /\ pc = "parameters"
  /\ recHoleGroups = <<>>
  /\ um = [isNull |-> TRUE]
  /\ groupIndex = 0
  /\ runResult = <<>>
  /\ convertCalls = <<>>
  /\ adskResult = <<>>
  /\ bodies = <<>>
  /\ camCalls = <<>>
  /\ error = <<>>
  /\ groupPc = <<>>
  /\ groupResult = <<>>
  /\ adskParameters \in ExtrudeTextParameters
  /\ parameters = EmptyObject
  /\ exit = FALSE
  /\ ms = 0
  /\ elapsed = 0
  /\ notifiedAt = <<>>
  /\ NcProgramIdle
  /\ SaveDocumentIdle

\* Variant of ExtrudeTextReadParameters: the default is given to a missing
\* timeoutSeconds only, not to 0.
ExtrudeTextReadParameters_onlyWhenMissing ==
  /\ pc = "parameters"
  /\ IF falsyString(prop(adskParameters, "text"))
     THEN pc' = "threw" /\ error' = <<"No text parameter">> /\ parameters' = adskParameters
     ELSE IF falsyString(prop(adskParameters, "fileName"))
          THEN pc' = "threw" /\ error' = <<"No fileName parameter">> /\ parameters' = adskParameters
          ELSE /\ pc' = "create"
               /\ error' = error
               /\ parameters' = IF prop(adskParameters, "timeoutSeconds") = {} THEN assign(adskParameters, "timeoutSeconds", DefaultTimeoutSeconds) ELSE adskParameters
  /\ UNCHANGED <<adskResult, adskParameters, exit, ms, elapsed, notifiedAt>>
  /\ UNCHANGED besidesExtrudeText

\* parameters = JSON.parse(adsk.parameters), the two checks, and the default
\* of timeoutSeconds.
ExtrudeTextReadParameters ==
  /\ pc = "parameters"
  /\ IF falsyString(prop(adskParameters, "text"))
     THEN pc' = "threw" /\ error' = <<"No text parameter">> /\ parameters' = adskParameters
     ELSE IF falsyString(prop(adskParameters, "fileName"))
          THEN pc' = "threw" /\ error' = <<"No fileName parameter">> /\ parameters' = adskParameters
          ELSE /\ pc' = "create"
               /\ error' = error
               /\ parameters' = IF falsyNumber(prop(adskParameters, "timeoutSeconds")) THEN assign(adskParameters, "timeoutSeconds", DefaultTimeoutSeconds) ELSE adskParameters
  /\ UNCHANGED <<adskResult, adskParameters, exit, ms, elapsed, notifiedAt>>
  /\ UNCHANGED besidesExtrudeText

\* The document, the sketch, the text and the extrusion are made, or one of
\* the checks on the way throws.
ExtrudeTextCreate ==
  /\ pc = "create"
  /\ \/ pc' = "save" /\ error' = error
     \/ \E message \in ExtrudeTextErrors : pc' = "threw" /\ error' = <<message>>
  /\ UNCHANGED <<adskResult, adskParameters, parameters, exit, ms, elapsed, notifiedAt>>
  /\ UNCHANGED besidesExtrudeText

\* The handlers are added and doc.saveAs is called: it returns, with the
\* dataFileComplete handler already run or not, or defaultFolder throws.
ExtrudeTextSaveAs ==
  /\ pc = "save"
  /\ \/ pc' = "wait" /\ error' = error /\ exit' = exit /\ notifiedAt' = notifiedAt
     \/ pc' = "wait" /\ error' = error /\ exit' = TRUE /\ notifiedAt' = <<[at |-> 0, stepBegan |-> 0]>>
     \/ \E message \in {"Unable to get active hub's projects.", "Unable to create new project."} : pc' = "threw" /\ error' = <<message>> /\ exit' = exit /\ notifiedAt' = notifiedAt
  /\ UNCHANGED <<adskResult, adskParameters, parameters, ms, elapsed>>
  /\ UNCHANGED besidesExtrudeText

\* wait(() => exit, parameters.timeoutSeconds * 1000) is entered:
\* start = new Date().getTime()
ExtrudeTextWait ==
  /\ pc = "wait"
  /\ ms' = parameters.timeoutSeconds * 1000
  /\ elapsed' = 0
  /\ pc' = "test"
  /\ UNCHANGED <<adskResult, error, adskParameters, parameters, exit, notifiedAt>>
  /\ UNCHANGED besidesExtrudeText

\* while (new Date().getTime() - start < ms), and throw Error("Timeout")
\* when the loop is left.
ExtrudeTextWaitTest ==
  /\ pc = "test"
  /\ IF elapsed < ms
     THEN pc' = "doEvents" /\ error' = error
     ELSE pc' = "threw" /\ error' = <<"Timeout">>
  /\ UNCHANGED <<adskResult, adskParameters, parameters, exit, ms, elapsed, notifiedAt>>
  /\ UNCHANGED besidesExtrudeText

\* adsk.doEvents(); if (predicate()) return: the step takes some time, and
\* the dataFileComplete handler runs at some time within it, or does not.
ExtrudeTextDoEvents ==
  /\ pc = "doEvents"
  /\ \E duration \in StepDurations :
       /\ elapsed' = elapsed + duration
       /\ \/ exit' = exit /\ notifiedAt' = notifiedAt
          \/ \E at \in TimesBetween(elapsed, elapsed + duration) : exit' = TRUE /\ notifiedAt' = IF notifiedAt = <<>> THEN <<[at |-> at, stepBegan |-> elapsed]>> ELSE notifiedAt
  /\ pc' = IF exit' THEN "waited" ELSE "test"
  /\ UNCHANGED <<adskResult, error, adskParameters, parameters, ms>>
  /\ UNCHANGED besidesExtrudeText

\* adsk.result = JSON.stringify({Filename: ..., urn: ..., "Fusion Web URL":
\* ...}), or doc.dataFile is null and reading its name throws.
ExtrudeTextSetResult ==
  /\ pc = "waited"
  /\ \/ pc' = "done" /\ adskResult' = <<stringify([Filename |-> parameters.fileName, urn |-> "urn", FusionWebURL |-> "url"])>> /\ error' = error
     \/ pc' = "threw" /\ adskResult' = adskResult /\ error' = <<TypeError>>
  /\ UNCHANGED <<adskParameters, parameters, exit, ms, elapsed, notifiedAt>>
  /\ UNCHANGED besidesExtrudeText

ExtrudeTextNext == ExtrudeTextReadParameters \/ ExtrudeTextCreate \/ ExtrudeTextSaveAs \/ ExtrudeTextWait \/ ExtrudeTextWaitTest \/ ExtrudeTextDoEvents \/ ExtrudeTextSetResult

\* The extrude-text script from its start.
SpecExtrudeText == InitExtrudeText /\ [][ExtrudeTextNext]_vars

----------------------------------------------------------------------------
(* The NC-program posting script, from cam.generateAllToolpaths on.        *)

\* The number of polls the wait for the toolpaths allows.
PollLimit == 2 * 60 * 2

\* What the creation of the NC program may throw: getPostConfig,
\* getFolderId and getProjectId throw an Error, and a parameter that
\* itemByName does not find makes the assignment to its value throw.
NcProgramErrors == {"Post with description not found.", "Unable to get active hub's projects.", "Unable to create new project.", "Folder not found", "Cannot get encoded project id", "Cannot get Project Id", TypeError}

\* The script has a document with a CAM product and setups and is about to
\* generate the toolpaths.
InitNcProgram ==
  /\ pc = "generate"
  /\ adskResult = <<>>
  /\ error = <<>>
  /\ ms = 0
  /\ elapsed = 0
  /\ adskParameters = EmptyObject
  /\ parameters = EmptyObject
  /\ exit = FALSE
  /\ notifiedAt = <<>>
  /\ NcProgramIdle
  /\ HoleRecognitionIdle
  /\ SaveDocumentIdle

\* let future = cam.generateAllToolpaths(true); var i = 0;  The generation
\* may be complete at once.
NcGenerate ==
  /\ pc = "generate"
  /\ polls' = 0
  /\ generationCompleted' \in BOOLEAN
  /\ hasActiveJobs' \in BOOLEAN
  /\ pc' = "pollTest"
  /\ UNCHANGED <<error, ms, elapsed, waitReturn, ncCalls>>
  /\ UNCHANGED besidesNcProgram

\* The variant whose test admits the poll after the last one.
NcPollTest_inclusive ==
  /\ pc = "pollTest"
  /\ IF generationCompleted = FALSE /\ polls <= PollLimit
       THEN pc' = "waitTest" /\ ms' = 500 /\ elapsed' = 0 /\ waitReturn' = "pollNext"
       ELSE pc' = "createNc" /\ UNCHANGED <<ms, elapsed, waitReturn>>
  /\ UNCHANGED <<error, polls, generationCompleted, hasActiveJobs, ncCalls>>
  /\ UNCHANGED besidesNcProgram

\* while (future.isGenerationCompleted == false && i < 2 * 60 * 2): the
\* body begins with wait(500), whose first statement reads the start time.
NcPollTest ==
  /\ pc = "pollTest"
  /\ IF generationCompleted = FALSE /\ polls < PollLimit
       THEN pc' = "waitTest" /\ ms' = 500 /\ elapsed' = 0 /\ waitReturn' = "pollNext"
       ELSE pc' = "createNc" /\ UNCHANGED <<ms, elapsed, waitReturn>>
  /\ UNCHANGED <<error, polls, generationCompleted, hasActiveJobs, ncCalls>>
  /\ UNCHANGED besidesNcProgram

\* wait: while (new Date().getTime() - start < ms), and the return to the
\* caller when the test fails.
NcWaitTest ==
  /\ pc = "waitTest"
  /\ pc' = IF elapsed < ms THEN "waitDoEvents" ELSE waitReturn
  /\ UNCHANGED <<error, ms, elapsed, polls, generationCompleted, hasActiveJobs, waitReturn, ncCalls>>
  /\ UNCHANGED besidesNcProgram

\* wait: adsk.doEvents().  Time passes; the generation may complete and
\* jobs may start and end meanwhile.
NcDoEvents ==
  /\ pc = "waitDoEvents"
  /\ \E duration \in StepDurations : elapsed' = elapsed + duration
  /\ generationCompleted' \in {generationCompleted, TRUE}
  /\ hasActiveJobs' \in BOOLEAN
  /\ pc' = "waitTest"
  /\ UNCHANGED <<error, ms, polls, waitReturn, ncCalls>>
  /\ UNCHANGED besidesNcProgram

\* i++
NcPollNext ==
  /\ pc = "pollNext"
  /\ polls' = polls + 1
  /\ pc' = "pollTest"
  /\ UNCHANGED <<error, ms, elapsed, generationCompleted, hasActiveJobs, waitReturn, ncCalls>>
  /\ UNCHANGED besidesNcProgram

\* From getPostConfig to cam.ncPrograms.add(ncInput): the NC program is
\* created, or one of the steps before it throws.
NcCreate ==
  /\ pc = "createNc"
  /\ \/ pc' = "postProcess" /\ ncCalls' = Append(ncCalls, "add") /\ error' = error
     \/ \E e \in NcProgramErrors : pc' = "threw" /\ ncCalls' = ncCalls /\ error' = <<e>>
  /\ UNCHANGED <<ms, elapsed, polls, generationCompleted, hasActiveJobs, waitReturn>>
  /\ UNCHANGED besidesNcProgram

\* newprogram.postProcess(postOptions!), which may start a job.
NcPostProcess ==
  /\ pc = "postProcess"
  /\ ncCalls' = Append(ncCalls, "postProcess")
  /\ hasActiveJobs' \in BOOLEAN
  /\ pc' = "jobsTest"
  /\ UNCHANGED <<error, ms, elapsed, polls, generationCompleted, waitReturn>>
  /\ UNCHANGED besidesNcProgram

\* while (app.hasActiveJobs) { wait(4000); } wait(5000);
NcJobsTest ==
  /\ pc = "jobsTest"
  /\ pc' = "waitTest"
  /\ elapsed' = 0
  /\ IF hasActiveJobs
       THEN ms' = 4000 /\ waitReturn' = "jobsTest"
       ELSE ms' = 5000 /\ waitReturn' = "done"
  /\ UNCHANGED <<error, polls, generationCompleted, hasActiveJobs, ncCalls>>
  /\ UNCHANGED besidesNcProgram

NcProgramNext == NcGenerate \/ NcPollTest \/ NcWaitTest \/ NcDoEvents \/ NcPollNext \/ NcCreate \/ NcPostProcess \/ NcJobsTest

\* The posting script from the generation of the toolpaths; the script runs
\* on as long as it has a statement to execute.
SpecNcProgram == InitNcProgram /\ [][NcProgramNext]_vars /\ WF_vars(NcProgramNext)

----------------------------------------------------------------------------
(* saveDocument, one call.                                                 *)

\* The values scriptParameters.saveAsNewDocument may have, written as in
\* JavaScript, and the ones that count as true in a condition.
SaveAsNewDocumentValues == {"true", "false", "undefined", "'false'", "''"}

Truthy(value) == value \in {"true", "'false'"}

\* doc.name, and the names the caller may pass: none, the empty string, or
\* doc.name + " modify parameters".
docName == "doc"

SaveNames == {{}, {""}, {"doc modify parameters"}}

\* name ?? doc.name
nameOrDocName(optional) == IF optional = {} THEN docName ELSE CHOOSE n \in optional : TRUE

\* What a call of doc.saveAs or doc.save does: it returns true or false, or
\* it throws.
SaveOutcomes == {"true", "false", "throws"}

\* A call of saveDocument is entered with any arguments and any document.
InitSaveDocument ==
  /\ pc = "saveDocument"
  /\ adskResult = <<>>
  /\ error = <<>>
  /\ saveAsNewDocument \in SaveAsNewDocumentValues
  /\ saveName \in SaveNames
  /\ isModified \in BOOLEAN
  /\ docCalls = <<>>
  /\ returned = <<>>
  /\ HoleRecognitionIdle
  /\ ExtrudeTextIdle
  /\ NcProgramIdle

\* if (saveAsNewDocument)
SaveDocumentTest ==
  /\ pc = "saveDocument"
  /\ pc' = IF Truthy(saveAsNewDocument) THEN "saveAs" ELSE "isModified"
  /\ UNCHANGED <<error, saveAsNewDocument, saveName, isModified, docCalls, returned>>
  /\ UNCHANGED besidesSaveDocument

\* if (doc.saveAs(name ?? doc.name, destinationFolder, description, ""))
\* return true; else return false;  No handler surrounds the call.
SaveDocumentSaveAs ==
  /\ pc = "saveAs"
  /\ \E outcome \in SaveOutcomes :
       /\ docCalls' = Append(docCalls, [op |-> "saveAs", name |-> nameOrDocName(saveName), outcome |-> outcome])
       /\ IF outcome = "throws"
            THEN pc' = "threw" /\ error' = <<"Error">> /\ returned' = returned
            ELSE pc' = "returned" /\ error' = error /\ returned' = <<outcome = "true">>
  /\ UNCHANGED <<saveAsNewDocument, saveName, isModified>>
  /\ UNCHANGED besidesSaveDocument

\* if (!doc.isModified) return true;
SaveDocumentCheckModified ==
  /\ pc = "isModified"
  /\ IF ~isModified
       THEN pc' = "returned" /\ returned' = <<TRUE>>
       ELSE pc' = "save" /\ returned' = returned
  /\ UNCHANGED <<error, saveAsNewDocument, saveName, isModified, docCalls>>
  /\ UNCHANGED besidesSaveDocument

\* The variant without the try statement around doc.save.
SaveDocumentSave_uncaught ==
  /\ pc = "save"
  /\ \E outcome \in SaveOutcomes :
       /\ docCalls' = Append(docCalls, [op |-> "save", name |-> docName, outcome |-> outcome])
       /\ IF outcome = "throws"
            THEN pc' = "threw" /\ error' = <<"Error">> /\ returned' = returned
            ELSE pc' = "returned" /\ error' = error /\ returned' = <<outcome = "true">>
  /\ UNCHANGED <<saveAsNewDocument, saveName, isModified>>
  /\ UNCHANGED besidesSaveDocument

\* try { if (doc.save(description)) return true; else return false; }
\* catch (error) { return false; }
SaveDocumentSave ==
  /\ pc = "save"
  /\ \E outcome \in SaveOutcomes :
       /\ docCalls' = Append(docCalls, [op |-> "save", name |-> docName, outcome |-> outcome])
       /\ returned' = <<outcome = "true">>
  /\ pc' = "returned"
  /\ UNCHANGED <<error, saveAsNewDocument, saveName, isModified>>
  /\ UNCHANGED besidesSaveDocument

SaveDocumentNext == SaveDocumentTest \/ SaveDocumentSaveAs \/ SaveDocumentCheckModified \/ SaveDocumentSave

\* One call of saveDocument.
SpecSaveDocument == InitSaveDocument /\ [][SaveDocumentNext]_vars

----------------------------------------------------------------------------
(* Vocabulary of the properties.                                           *)

Cone == "HoleSegmentTypeCone"

Cylinder == "HoleSegmentTypeCylinder"

Flat == "HoleSegmentTypeFlat"

\* The hole's segment types in order, read off the hole itself.
Pattern == [i \in 1..hole.segmentCount |-> hole.segments[i].holeSegmentType]

\* getHoleDetails has returned.
Returned == pc = "returned"

\* The property key of the object obj has been assigned.
Has(obj, key) == key \in DOMAIN obj

\* label, with the suffix " with threaded" exactly when the hole is threaded.
Threaded(plain, withThreaded) == IF hole.isThreaded THEN withThreaded ELSE plain

\* The (pattern, isThrough, isThreaded) combinations the decision tree labels.
Labelled ==
  \/ Pattern \in {<<Cone>>, <<Cylinder>>, <<Cylinder, Cone>>}
  \/ Pattern \in {<<Cone, Cylinder>>, <<Cylinder, Cylinder>>} /\ hole.isThrough
  \/ Pattern \in {<<Cone, Cylinder, Flat>>, <<Cone, Cylinder, Cone>>, <<Cylinder, Flat, Cylinder>>}
  \/ Pattern \in {<<Cylinder, Flat, Cylinder, Flat>>, <<Cylinder, Flat, Cylinder, Cone>>}

----------------------------------------------------------------------------
(* C1 *)

\* C1 as stated: a hole of 1 to 4 segments whose combination is not labelled
\* is returned as holeType "Unknown" with drill = {} and counterBore = {}.
C1_UnmatchedIsEmpty == (Returned /\ hole.segmentCount \in 1..4 /\ ~Labelled) => result = initialResult

\* C1 (amended): a hole of 1 to 4 segments whose combination is not labelled
\* is returned as holeType "Unknown"; its drill is not empty, drill.depth is
\* the hole's totalLength, and counterBore is {} except for [Cylinder,
\* Cylinder] with isThrough = false, where diameter and length are populated.
C1_UnmatchedIsUnknown == (Returned /\ hole.segmentCount \in 1..4 /\ ~Labelled) => (/\ result.holeType = "Unknown" /\ Has(result.drill, "depth") /\ result.drill.depth = hole.totalLength /\ (result.counterBore = EmptyObject <=> Pattern # <<Cylinder, Cylinder>>) /\ (Pattern = <<Cylinder, Cylinder>> => DOMAIN result.counterBore = {"diameter", "length"}))

C1_Witness == Returned /\ Pattern = <<Flat, Cone>> /\ result.holeType = "Unknown" /\ result.drill # EmptyObject

----------------------------------------------------------------------------
(* C2 *)

\* C2: a hole of more than 4 segments is returned as holeType "Unknown" with
\* no drill field and no counterBore field, and no segment of it was read.
C2_CutOff == (Returned /\ hole.segmentCount > 4) => (result.holeType = "Unknown" /\ DOMAIN result.drill = {} /\ DOMAIN result.counterBore = {} /\ segmentReads = {})

C2_Witness == Returned /\ hole.segmentCount = 5 /\ hole.isThrough /\ hole.isThreaded /\ Pattern[1] = Cone /\ result.holeType = "Unknown"

----------------------------------------------------------------------------
(* C3 *)

\* C3: a hole of exactly 1 segment is "Spot Drill" for a Cone, "Through
\* Hole" for a Cylinder that is through and not threaded, "Blind Hole" for a
\* Cylinder that is not through or is threaded, and "Unknown" for a Flat.
C3_OneSegmentLabels == (Returned /\ hole.segmentCount = 1) => result.holeType = (CASE Pattern = <<Cone>> -> "Spot Drill" [] Pattern = <<Cylinder>> /\ hole.isThrough /\ ~hole.isThreaded -> "Through Hole" [] Pattern = <<Cylinder>> /\ (~hole.isThrough \/ hole.isThreaded) -> "Blind Hole" [] Pattern = <<Flat>> -> "Unknown")

C3_Witness == Returned /\ Pattern = <<Cylinder>> /\ hole.isThrough /\ hole.isThreaded /\ result.holeType = "Blind Hole"

----------------------------------------------------------------------------
(* C4 *)

\* C4: of the holes of exactly 2 segments, a through [Cone, Cylinder] is
\* "CounterSink Through Hole", a through [Cylinder, Cylinder] is "CounterBore
\* Through Hole", and a [Cylinder, Cone] is "Non Flat Bottom Blind Hole"
\* whatever isThrough is, each " with threaded" exactly when isThreaded.
C4_TwoSegmentLabels ==
  /\ (Returned /\ Pattern = <<Cone, Cylinder>> /\ hole.isThrough) => result.holeType = Threaded("CounterSink Through Hole", "CounterSink Through Hole with threaded")
  /\ (Returned /\ Pattern = <<Cylinder, Cylinder>> /\ hole.isThrough) => result.holeType = Threaded("CounterBore Through Hole", "CounterBore Through Hole with threaded")
  /\ (Returned /\ Pattern = <<Cylinder, Cone>>) => result.holeType = Threaded("Non Flat Bottom Blind Hole", "Non Flat Bottom Blind Hole with threaded")

C4_Witness == Returned /\ Pattern = <<Cylinder, Cone>> /\ hole.isThrough /\ hole.isThreaded /\ result.holeType = "Non Flat Bottom Blind Hole with threaded"

----------------------------------------------------------------------------
(* C5 *)

\* C5: a [Cone, Cylinder] or [Cylinder, Cylinder] hole that is not through
\* gets no label: holeType is still "Unknown", threaded or not.
C5_NonThroughGap == (Returned /\ Pattern \in {<<Cone, Cylinder>>, <<Cylinder, Cylinder>>} /\ ~hole.isThrough) => result.holeType = "Unknown"

C5_Witness == Returned /\ Pattern = <<Cone, Cylinder>> /\ ~hole.isThrough /\ hole.isThreaded /\ result.holeType = "Unknown"

----------------------------------------------------------------------------
(* C6 *)

\* C6: a hole of exactly 3 segments is labelled by its pattern and isThreaded
\* alone: [Cone, Cylinder, Flat] "CounterSink Blind Hole", [Cone, Cylinder,
\* Cone] "Non Flat Bottom CounterSink Blind Hole", [Cylinder, Flat, Cylinder]
\* "CounterBore through Hole", each " with threaded" exactly when isThreaded,
\* and every other pattern "Unknown".
C6_ThreeSegmentLabels == (Returned /\ hole.segmentCount = 3) => result.holeType = (CASE Pattern = <<Cone, Cylinder, Flat>> -> Threaded("CounterSink Blind Hole", "CounterSink Blind Hole with threaded") [] Pattern = <<Cone, Cylinder, Cone>> -> Threaded("Non Flat Bottom CounterSink Blind Hole", "Non Flat Bottom CounterSink Blind Hole with threaded") [] Pattern = <<Cylinder, Flat, Cylinder>> -> Threaded("CounterBore through Hole", "CounterBore through Hole with threaded") [] OTHER -> "Unknown")

C6_Witness == Returned /\ Pattern = <<Cylinder, Flat, Cylinder>> /\ hole.isThrough /\ ~hole.isThreaded /\ result.holeType = "CounterBore through Hole"

----------------------------------------------------------------------------
(* C7 *)

\* C7: a hole of exactly 4 segments is "CounterBore Blind Hole" for
\* [Cylinder, Flat, Cylinder, Flat] and "Non Flat Bottom CounterBore Blind
\* Hole" for [Cylinder, Flat, Cylinder, Cone], each " with threaded" exactly
\* when isThreaded and whatever isThrough is, and "Unknown" otherwise.
C7_FourSegmentLabels == (Returned /\ hole.segmentCount = 4) => result.holeType = (CASE Pattern = <<Cylinder, Flat, Cylinder, Flat>> -> Threaded("CounterBore Blind Hole", "CounterBore Blind Hole with threaded") [] Pattern = <<Cylinder, Flat, Cylinder, Cone>> -> Threaded("Non Flat Bottom CounterBore Blind Hole", "Non Flat Bottom CounterBore Blind Hole with threaded") [] OTHER -> "Unknown")

C7_Witness == Returned /\ Pattern = <<Cylinder, Flat, Cylinder, Cone>> /\ hole.isThrough /\ hole.isThreaded /\ result.holeType = "Non Flat Bottom CounterBore Blind Hole with threaded"

----------------------------------------------------------------------------
(* C8 *)

\* The segment (0-based) whose topDiameter C8 names for the hole, or -1 when
\* C8 says drill.diameter is unset.
C8_DiameterSegment ==
  CASE hole.segmentCount = 1 -> 0
    [] hole.segmentCount = 2 -> 1
    [] hole.segmentCount = 3 -> (IF Pattern = <<Cylinder, Flat, Cylinder>> THEN 2 ELSE 1)
    [] hole.segmentCount = 4 -> (IF Pattern \in {<<Cylinder, Flat, Cylinder, Flat>>, <<Cylinder, Flat, Cylinder, Cone>>} THEN 2 ELSE -1)

\* C8: for a hole of 1 to 4 segments drill.depth is the hole's totalLength,
\* and drill.diameter is the topDiameter of segment 0 (1 segment), segment 1
\* (2 segments), segment 1 or, for [Cylinder, Flat, Cylinder], segment 2
\* (3 segments), segment 2 for the two labelled 4-segment patterns, and
\* unset for every other 4-segment pattern.
C8_DrillDepthAndDiameter == (Returned /\ hole.segmentCount \in 1..4) => (/\ Has(result.drill, "depth") /\ result.drill.depth = hole.totalLength /\ (IF C8_DiameterSegment = -1 THEN ~Has(result.drill, "diameter") ELSE Has(result.drill, "diameter") /\ result.drill.diameter = hole.segments[C8_DiameterSegment + 1].topDiameter))

C8_Witness == Returned /\ Pattern = <<Cylinder, Flat, Cylinder>> /\ Has(result.drill, "diameter") /\ result.drill.diameter = hole.segments[3].topDiameter /\ result.drill.diameter # hole.segments[2].topDiameter

----------------------------------------------------------------------------
(* C9 *)

\* C9: drill.tipAngle is populated exactly for the holes of 1 or 2 segments
\* and for [Cone, Cylinder, Cone] and [Cylinder, Flat, Cylinder, Cone]; when
\* populated it is twice the halfAngle of the hole's last segment.
C9_TipAngle ==
  Returned =>
    /\ (Has(result.drill, "tipAngle") <=> (hole.segmentCount \in {1, 2} \/ Pattern \in {<<Cone, Cylinder, Cone>>, <<Cylinder, Flat, Cylinder, Cone>>}))
    /\ (Has(result.drill, "tipAngle") => result.drill.tipAngle = 2 * hole.segments[hole.segmentCount].halfAngle)

C9_Witness == Returned /\ Pattern = <<Cylinder, Flat>> /\ Has(result.drill, "tipAngle") /\ result.drill.tipAngle = 2 * hole.segments[2].halfAngle

----------------------------------------------------------------------------
(* C10 *)

\* C10: counterBore.diameter and counterBore.length are populated together,
\* as segment 0's topDiameter and height, exactly for [Cylinder, Cylinder]
\* (through or not), [Cylinder, Flat, Cylinder], [Cylinder, Flat, Cylinder,
\* Flat] and [Cylinder, Flat, Cylinder, Cone]; otherwise both are unset.
C10_CounterBore == Returned => (IF Pattern \in {<<Cylinder, Cylinder>>, <<Cylinder, Flat, Cylinder>>, <<Cylinder, Flat, Cylinder, Flat>>, <<Cylinder, Flat, Cylinder, Cone>>} THEN result.counterBore = [diameter |-> hole.segments[1].topDiameter, length |-> hole.segments[1].height] ELSE DOMAIN result.counterBore = {})

C10_Witness == Returned /\ Pattern = <<Cylinder, Cylinder>> /\ ~hole.isThrough /\ result.holeType = "Unknown" /\ DOMAIN result.counterBore = {"diameter", "length"}

----------------------------------------------------------------------------
(* C11 *)

\* The shape of a HoleDetails object as getHoleDetails returns it.
IsHoleDetails(r) == DOMAIN r = {"holeType", "drill", "counterBore"} /\ DOMAIN r.drill \subseteq {"diameter", "tipAngle", "depth"} /\ DOMAIN r.counterBore \subseteq {"diameter", "length"}

\* C11: getHoleDetails never raises an error: on a hole of at least one
\* segment it reads only segments 0..segmentCount-1, so it never throws, it
\* can always run to its return statement, and what it returns is a
\* HoleDetails object.
C11_NeverRaises ==
  /\ pc # "threw"
  /\ (pc = "called" /\ hole.segmentCount >= 1) => ENABLED GetHoleDetails
  /\ Returned => (segmentReads \subseteq 0..(hole.segmentCount - 1) /\ IsHoleDetails(result))

C11_Witness == Returned /\ hole.segmentCount = 4 /\ segmentReads = {0, 1, 2, 3} /\ IsHoleDetails(result)

----------------------------------------------------------------------------
(* C12 *)

\* The labels of the documented vocabulary.
HoleTypeVocabulary == {"Unknown", "Spot Drill", "Through Hole", "Blind Hole"} \cup UNION {{plain, plain \o " with threaded"} : plain \in {"CounterSink Through Hole", "CounterBore Through Hole", "Non Flat Bottom Blind Hole", "CounterSink Blind Hole", "Non Flat Bottom CounterSink Blind Hole", "CounterBore through Hole", "CounterBore Blind Hole", "Non Flat Bottom CounterBore Blind Hole"}}

\* C12: the holeType getHoleDetails returns is one of the fixed vocabulary,
\* and it is still the same label after defaultUnits, after the holeCount
\* assignment, in the array of results and in adsk.result.
C12_Vocabulary ==
  /\ pc \in {"returned", "normalized", "counted", "threw"} => (result.holeType \in HoleTypeVocabulary /\ result.holeType = getHoleDetails(hole).holeType)
  /\ \A k \in 1..Len(runResult) : runResult[k].holeType \in HoleTypeVocabulary /\ runResult[k].holeType = getHoleDetails(item(recHoleGroups[k], 0)).holeType
  /\ \A a \in 1..Len(adskResult) : \A k \in 1..Len(recHoleGroups) : adskResult[a].json.holes[k].holeType \in HoleTypeVocabulary

C12_Witness == pc = "done" /\ ~um.isNull /\ um.defaultLengthUnits = "mm" /\ Len(adskResult) = 1 /\ adskResult[1].json.holes[1].holeType = "Non Flat Bottom CounterSink Blind Hole with threaded"

----------------------------------------------------------------------------
(* C13, the determinism of getHoleDetails, has no formula: getHoleDetails  *)
(* is an operator here, and an operator agrees with itself.                *)

----------------------------------------------------------------------------
(* C14 *)

\* The result run owes for the hole group g: member 0 classified, then
\* normalized, then given the group's count.
ExpectedResult(g) == assign(defaultUnits(getHoleDetails(item(g, 0)), um).h, "holeCount", count(g))

\* C14: the loop of run produces one result per recognized hole group, in
\* input order: the array never holds anything but the results of the first
\* groups in their order, at the end it holds one per group, and that array
\* is what adsk.result carries; no groups give {"holes": []}.
C14_OnePerGroupInOrder ==
  /\ Len(runResult) <= Len(recHoleGroups)
  /\ \A k \in 1..Len(runResult) : runResult[k] = ExpectedResult(recHoleGroups[k])
  /\ pc = "done" => (Len(runResult) = Len(recHoleGroups) /\ adskResult = <<stringify([holes |-> runResult])>>)
  /\ (pc = "done" /\ Len(recHoleGroups) = 0) => adskResult = <<stringify([holes |-> <<>>])>>

C14_Witness == pc = "done" /\ Len(recHoleGroups) = 2 /\ Len(runResult) = 2 /\ runResult[1].holeType = "Non Flat Bottom CounterBore Blind Hole with threaded" /\ runResult[2].holeType = "Blind Hole" /\ adskResult # <<>>

----------------------------------------------------------------------------
(* C15 *)

\* C15: holeCount is the member count of the result's own group, exactly: it
\* is not yet assigned while the hole is classified and normalized, it is
\* assigned the count of the current group, no call of um.convert is made
\* for it, and every result of the array carries the count of its group.
C15_HoleCount ==
  /\ pc \in {"called", "returned", "normalized", "threw"} => ~Has(result, "holeCount")
  /\ pc = "counted" => (Has(result, "holeCount") /\ result.holeCount = Len(recHoleGroups[groupIndex + 1].members))
  /\ pc = "counted" => Len(convertCalls) = Cardinality(DOMAIN getHoleDetails(hole).drill \ {"tipAngle"}) + Cardinality(DOMAIN getHoleDetails(hole).counterBore)
  /\ \A k \in 1..Len(runResult) : Has(runResult[k], "holeCount") /\ runResult[k].holeCount = Len(recHoleGroups[k].members)

C15_Witness == pc = "done" /\ ~um.isNull /\ um.defaultLengthUnits = "mm" /\ Len(runResult) = 2 /\ Len(recHoleGroups[1].members) = 2 /\ Len(recHoleGroups[2].members) = 1 /\ runResult[1].holeCount = 2 /\ runResult[2].holeCount = 1

----------------------------------------------------------------------------
(* C16 *)

\* A result without its holeCount.
Classification(r) == [holeType |-> r.holeType, drill |-> r.drill, counterBore |-> r.counterBore]

\* C16: only member 0 of a group is classified: the hole handed to
\* getHoleDetails is member 0 of the current group, and two groups with the
\* same member 0, whatever their other members and sizes, get results that
\* differ in holeCount at most.
C16_OnlyFirstMember ==
  /\ pc \in {"called", "returned", "normalized", "counted"} => hole = recHoleGroups[groupIndex + 1].members[1]
  /\ \A k, l \in 1..Len(runResult) : recHoleGroups[k].members[1] = recHoleGroups[l].members[1] => Classification(runResult[k]) = Classification(runResult[l])

C16_Witness == pc = "done" /\ Len(runResult) = 2 /\ recHoleGroups[1].members[1] = recHoleGroups[2].members[1] /\ Len(recHoleGroups[1].members) = 1 /\ Len(recHoleGroups[2].members) = 2 /\ recHoleGroups[2].members[2] # recHoleGroups[2].members[1] /\ Classification(runResult[1]) = Classification(runResult[2]) /\ runResult[1].holeCount # runResult[2].holeCount

----------------------------------------------------------------------------
(* C17 *)

\* What getHoleDetails returned for the current hole, before normalization.
Classified == getHoleDetails(hole)

\* The one call um.convert(value, internalUnits, defaultLengthUnits) owed to
\* the length field obj.key, if getHoleDetails populated it.
CallFor(obj, key) == IF Has(Classified[obj], key) THEN <<<<Classified[obj][key], um.internalUnits, um.defaultLengthUnits>>>> ELSE <<>>

\* a radians in degrees on the integer grid of the model: pi = 355/113, so
\* 180/pi = 4068/71.
RadiansToDegrees(a) == (a * 4068) \div 71

\* C17: defaultUnits makes exactly one call convert(value, internalUnits,
\* defaultLengthUnits) for each populated length field and no other call,
\* each populated length field then holds what that call returned, a
\* populated drill.tipAngle holds its value times 180/pi, and holeType is
\* not touched.
C17_Conversion ==
  pc = "normalized" =>
    /\ convertCalls = CallFor("drill", "diameter") \o CallFor("drill", "depth") \o CallFor("counterBore", "diameter") \o CallFor("counterBore", "length")
    /\ \A key \in (DOMAIN Classified.drill) \ {"tipAngle"} : Has(result.drill, key) /\ result.drill[key] = convert(Classified.drill[key], um.internalUnits, um.defaultLengthUnits)
    /\ \A key \in DOMAIN Classified.counterBore : Has(result.counterBore, key) /\ result.counterBore[key] = convert(Classified.counterBore[key], um.internalUnits, um.defaultLengthUnits)
    /\ Has(Classified.drill, "tipAngle") => (Has(result.drill, "tipAngle") /\ result.drill.tipAngle = RadiansToDegrees(Classified.drill.tipAngle))
    /\ result.holeType = Classified.holeType

C17_Witness == pc = "normalized" /\ ~um.isNull /\ um.defaultLengthUnits = "mm" /\ Pattern = <<Cylinder, Flat, Cylinder, Cone>> /\ Len(convertCalls) = 4 /\ result.drill.diameter = 10 * hole.segments[3].topDiameter /\ result.counterBore.length = 10 * hole.segments[1].height /\ result.drill.tipAngle # 2 * hole.segments[4].halfAngle

----------------------------------------------------------------------------
(* C18 *)

\* C18: defaultUnits never invents values: the drill and counterBore fields
\* that have a value after it are exactly those that had one before it.
C18_SameFieldsPopulated == pc = "normalized" => (DOMAIN result.drill = DOMAIN Classified.drill /\ DOMAIN result.counterBore = DOMAIN Classified.counterBore)

C18_Witness == pc = "normalized" /\ ~um.isNull /\ um.defaultLengthUnits = "mm" /\ Pattern = <<Flat, Flat, Flat, Flat>> /\ DOMAIN result.drill = {"depth"} /\ result.drill.depth = 10 * hole.totalLength /\ DOMAIN result.counterBore = {}

----------------------------------------------------------------------------
(* C19 *)

\* The normalized result put through defaultUnits a second time.
NormalizedTwice == defaultUnits(result, um).h

\* C19: normalization is not idempotent: a second defaultUnits converts
\* every populated field once more, so whenever the first one changed a
\* populated field the second one changes the result again.
C19_NotIdempotent ==
  pc = "normalized" =>
    /\ \A key \in (DOMAIN result.drill) \ {"tipAngle"} : NormalizedTwice.drill[key] = convert(result.drill[key], um.internalUnits, um.defaultLengthUnits)
    /\ \A key \in DOMAIN result.counterBore : NormalizedTwice.counterBore[key] = convert(result.counterBore[key], um.internalUnits, um.defaultLengthUnits)
    /\ Has(result.drill, "tipAngle") => NormalizedTwice.drill.tipAngle = RadiansToDegrees(result.drill.tipAngle)
    /\ result # Classified => NormalizedTwice # result

C19_Witness == pc = "normalized" /\ ~um.isNull /\ um.defaultLengthUnits = "cm" /\ Pattern = <<Cone>> /\ result.drill.diameter = Classified.drill.diameter /\ result.drill.tipAngle # Classified.drill.tipAngle /\ NormalizedTwice.drill.tipAngle # result.drill.tipAngle /\ NormalizedTwice.drill.diameter = result.drill.diameter

----------------------------------------------------------------------------
(* C20 *)

\* The populated length fields of the HoleDetails object r.
LengthFields(r) == {<<"drill", key>> : key \in (DOMAIN r.drill) \ {"tipAngle"}} \cup {<<"counterBore", key>> : key \in DOMAIN r.counterBore}

\* No result in adsk.result carries a populated length that was not converted:
\* without a units manager it carries no length at all, with one every length
\* is what um.convert made of the classified value.
NoUnconvertedLengthEmitted ==
  \A a \in 1..Len(adskResult) : \A k \in 1..Len(recHoleGroups) :
    LET emitted == adskResult[a].json.holes[k]
        classified == getHoleDetails(item(recHoleGroups[k], 0))
    IN  IF um.isNull
        THEN LengthFields(emitted) = {}
        ELSE LengthFields(emitted) = LengthFields(classified) /\ \A f \in LengthFields(emitted) : emitted[f[1]][f[2]] = convert(classified[f[1]][f[2]], um.internalUnits, um.defaultLengthUnits)

----------------------------------------------------------------------------
(* C21 *)

\* The positions in camCalls of the calls of the operation op.
CallsOf(op) == {k \in 1..Len(camCalls) : camCalls[k].op = op}

\* C21: in a design without bodies run ends with the error "There are no
\* bodies in the design.", having made no call of createSetup or of
\* recognizeHoleGroups and never setting adsk.result; with at least one body
\* createSetup is called exactly once, on bodies[0], and before
\* recognizeHoleGroups.
C21_NoBodies ==
  /\ (Len(bodies) = 0 /\ pc # "start") => (pc = "threw" /\ error = <<"There are no bodies in the design.">> /\ camCalls = <<>> /\ adskResult = <<>>)
  /\ error = <<"There are no bodies in the design.">> => (Len(bodies) = 0 /\ ~ENABLED StartNext)
  /\ pc \in {"start", "setup"} => camCalls = <<>>
  /\ (Len(bodies) > 0 /\ pc \notin {"start", "setup"}) => (CallsOf("createSetup") = {1} /\ camCalls[1].body = <<bodies[1]>>)
  /\ \A k \in CallsOf("recognizeHoleGroups") : k > 1 /\ camCalls[k].bodies = bodies

C21_Witness == pc = "threw" /\ Len(bodies) = 0 /\ error = <<"There are no bodies in the design.">> /\ camCalls = <<>> /\ adskResult = <<>>

----------------------------------------------------------------------------
(* C22 *)

\* The two Cylinder conditions of the segmentCount == 1 branch.
ThroughCondition == hole.isThrough /\ ~hole.isThreaded

BlindCondition == ~hole.isThrough \/ hole.isThreaded

\* C22 as stated: a single-Cylinder hole that is through and threaded
\* satisfies both Cylinder conditions and is labelled "Through Hole".
C22_ThroughWins == (Returned /\ Pattern = <<Cylinder>> /\ hole.isThrough /\ hole.isThreaded) => (ThroughCondition /\ BlindCondition /\ result.holeType = "Through Hole")

\* C22 (amended): a single-Cylinder hole that is through and threaded
\* satisfies the second Cylinder condition only and is labelled "Blind Hole";
\* every single-Cylinder hole satisfies exactly one of the two conditions and
\* is labelled by the one it satisfies.
C22_BlindWins ==
  /\ (Returned /\ Pattern = <<Cylinder>> /\ hole.isThrough /\ hole.isThreaded) => (~ThroughCondition /\ BlindCondition /\ result.holeType = "Blind Hole")
  /\ (Returned /\ Pattern = <<Cylinder>>) => (ThroughCondition # BlindCondition /\ (ThroughCondition <=> result.holeType = "Through Hole") /\ (BlindCondition <=> result.holeType = "Blind Hole"))

C22_Witness == Returned /\ Pattern = <<Cylinder>> /\ hole.isThrough /\ hole.isThreaded /\ ~ThroughCondition /\ BlindCondition /\ result.holeType = "Blind Hole" /\ result.holeType # "Through Hole"

----------------------------------------------------------------------------
(* C23 *)

\* C23 as stated: the object getHoleDetails returned is never changed
\* afterwards, neither by defaultUnits nor by anything run does later.
C23_NeverChanged == [][(pc \in {"returned", "normalized", "counted"}) => result' = result]_vars

\* C23 (amended): defaultUnits assigns the converted values to the object
\* passed to it and returns that object: the object getHoleDetails returned
\* holds the converted values afterwards, which differ from the classified
\* ones wherever the conversion is not the identity, and run then adds
\* holeCount to the same object; only holeType keeps the value getHoleDetails
\* gave it, and the results already in the array are never changed.
C23_ChangedInPlace ==
  [][/\ (pc = "returned") => (result' = defaultUnits(result, um).h /\ result'.holeType = result.holeType)
     /\ (pc = "returned" /\ pc' = "normalized" /\ Has(result.drill, "tipAngle")) => result' # result
     /\ (pc = "returned" /\ pc' = "normalized" /\ ~um.isNull /\ um.defaultLengthUnits = "mm") => \A f \in LengthFields(result) : result'[f[1]][f[2]] # result[f[1]][f[2]]
     /\ (pc = "normalized") => (result' = assign(result, "holeCount", count(recHoleGroups[groupIndex + 1])) /\ Classification(result') = Classification(result))
     /\ \A k \in 1..Len(runResult) : Len(runResult') >= k /\ runResult'[k] = runResult[k]]_vars

C23_Witness == pc = "normalized" /\ ~um.isNull /\ um.defaultLengthUnits = "mm" /\ Pattern = <<Cylinder, Cylinder>> /\ ~hole.isThrough /\ result # Classified /\ result.counterBore.diameter = 10 * Classified.counterBore.diameter /\ result.drill.depth # Classified.drill.depth

----------------------------------------------------------------------------
(* C24 *)

\* A step leaves the result object of every group whose process did not
\* move, the results already in the array, the groups and the units manager
\* as they are.
C24_StepWritesOwnResult ==
  /\ \A k \in DOMAIN groupPc : groupPc'[k] = groupPc[k] => groupResult'[k] = groupResult[k]
  /\ \A k \in 1..Len(runResult) : Len(runResult') >= k /\ runResult'[k] = runResult[k]
  /\ recHoleGroups' = recHoleGroups
  /\ um' = um

\* The result of every group is the same whether the sequential loop or the
\* group's own process produced it, at whatever point each of them is.
C24_SameResults ==
  /\ \A k \in DOMAIN groupPc : groupPc[k] = "counted" => groupResult[k] = ExpectedResult(recHoleGroups[k])
  /\ \A k \in 1..Len(runResult) : groupPc[k] = "counted" => groupResult[k] = runResult[k]
  /\ \A k \in DOMAIN groupPc : (groupPc[k] = "threw" /\ pc = "done") => FALSE
  /\ pc = "threw" => groupPc[groupIndex + 1] \notin {"normalized", "counted"}
  /\ (pc = "done" /\ \A k \in DOMAIN groupPc : groupPc[k] = "counted") => adskResult = <<stringify([holes |-> groupResult])>>

\* C24: the groups are processed independently: a step for one group writes
\* only that group's result object, results already appended never change,
\* and with the loop body run per group in any order, interleaved step by
\* step, every group gets the result the sequential loop gives it.
C24_Independent == []C24_SameResults /\ [][C24_StepWritesOwnResult]_vars

C24_Witness == pc = "normalized" /\ groupIndex = 0 /\ groupPc[1] = "returned" /\ groupPc[2] = "counted" /\ recHoleGroups[1] # recHoleGroups[2] /\ groupResult[2] = ExpectedResult(recHoleGroups[2]) /\ groupResult[2].holeCount = MaxGroupSize /\ um.defaultLengthUnits = "mm"

----------------------------------------------------------------------------
(* C25 *)

\* The holes with the segment kinds and flags of the classified hole, in
\* every choice of dimensions.
SameShape == {Hole(Pattern, scale, len, hole.isThrough, hole.isThreaded) : scale \in 1..MaxDim, len \in 1..MaxDim}

\* C25: holeType is decided by segmentCount, the segment kinds in order,
\* isThrough and isThreaded alone: every hole that agrees with the classified
\* one on these, whatever its topDiameters, heights, halfAngles and
\* totalLength, gets the same holeType.
C25_LabelFromShape == Returned => \A other \in SameShape : getHoleDetails(other).holeType = result.holeType

C25_Witness == Returned /\ Pattern = <<Cone, Cylinder, Cone>> /\ hole.isThreaded /\ hole.totalLength = 1000 * MaxDim + 9 /\ (\E other \in SameShape : other.totalLength # hole.totalLength /\ other.segments[3].halfAngle # hole.segments[3].halfAngle /\ getHoleDetails(other) # result /\ getHoleDetails(other).holeType = result.holeType) /\ result.holeType = "Non Flat Bottom CounterSink Blind Hole with threaded"

----------------------------------------------------------------------------
(* C26 *)

\* The labels that spell "Through Hole" with a capital T.
CapitalThroughLabels == {"Through Hole", "CounterSink Through Hole", "CounterSink Through Hole with threaded", "CounterBore Through Hole", "CounterBore Through Hole with threaded"}

\* C26: a hole labelled with one of the capital-T "Through Hole" labels has
\* isThrough = true.
C26_ThroughLabelIsThrough == (Returned /\ result.holeType \in CapitalThroughLabels) => hole.isThrough

C26_Witness == Returned /\ result.holeType = "CounterBore Through Hole with threaded" /\ hole.isThrough /\ Pattern = <<Cylinder, Cylinder>> /\ result.holeType \in CapitalThroughLabels

----------------------------------------------------------------------------
(* C27 *)

\* C27: every labelled result carries a drill diameter and a drill depth:
\* when holeType is not "Unknown", drill.diameter and drill.depth are both
\* populated.
C27_LabelledHasDrill == (Returned /\ result.holeType # "Unknown") => (Has(result.drill, "diameter") /\ Has(result.drill, "depth"))

C27_Witness == Returned /\ Pattern = <<Cylinder, Flat, Cylinder, Flat>> /\ result.holeType = "CounterBore Blind Hole" /\ Has(result.drill, "diameter") /\ Has(result.drill, "depth") /\ ~Has(result.drill, "tipAngle")

----------------------------------------------------------------------------
(* C28 *)

\* The timeout in milliseconds that the parameters given call for.
TimeoutMs == 1000 * (IF falsyNumber(prop(adskParameters, "timeoutSeconds")) THEN 20 ELSE adskParameters.timeoutSeconds)

\* What C28 says and the code does: adsk.result is set only after the
\* handler has run; wait returns right after the doEvents step that ran the
\* handler; the timeout is timeoutSeconds, 20 when missing or falsy; and
\* after Error("Timeout") nothing more happens and adsk.result stays unset.
C28_WaitBasics ==
  /\ (adskResult # <<>> \/ pc \in {"waited", "done"}) => (exit /\ notifiedAt # <<>>)
  /\ (pc = "test" /\ exit) => (elapsed = 0 /\ notifiedAt = <<[at |-> 0, stepBegan |-> 0]>>)
  /\ pc \in {"test", "doEvents", "waited", "done"} => ms = TimeoutMs
  /\ error = <<"Timeout">> => (pc = "threw" /\ elapsed >= ms /\ (ms > 0 => ~exit) /\ adskResult = <<>> /\ ~ENABLED ExtrudeTextNext)

InPollBody == pc \in {"waitTest", "waitDoEvents", "pollNext"} /\ waitReturn = "pollNext"

\* The wait for the toolpaths never polls more than PollLimit times, and a
\* poll is only under way when fewer than PollLimit are done.
C29_PollsBounded == polls <= PollLimit /\ (InPollBody => polls < PollLimit)

\* The loop test leaves the loop exactly when the generation is complete or
\* PollLimit polls are done, and leaving goes on to the creation of the NC
\* program without an error.
C29_TestLeaves == (pc = "pollTest") => /\ (pc' = "createNc") = (generationCompleted \/ polls >= PollLimit)
                                       /\ (pc' # "createNc") => InPollBody'
                                       /\ error' = <<>>
                                       /\ polls' = polls

\* C29: in the NC-program posting script the wait for toolpath generation
\* always terminates: it polls at most 240 times, each poll a wait of
\* 500 ms, and leaves the loop as soon as the test finds the generation
\* complete; after 240 polls without completion the script does not fail
\* but goes on to create and post-process the NC program.
C29_GenerationWaitTerminates == /\ PollLimit = 240
                                /\ []C29_PollsBounded
                                /\ [][C29_TestLeaves]_vars
                                /\ [][(InPollBody' /\ ~InPollBody) => ms' = 500]_vars
                                /\ (pc = "generate") ~> (pc = "createNc" /\ error = <<>>)
                                /\ [](ncCalls # <<>> => pc \notin {"generate", "pollTest"} /\ ~InPollBody)

\* The NC program is posted after 240 polls that never saw the generation
\* complete.
C29_Witness == polls = PollLimit /\ ~generationCompleted /\ ncCalls = <<"add", "postProcess">> /\ error = <<>>

\* The operations saveDocument has called on the document.
DocOps == {docCalls[n].op : n \in 1..Len(docCalls)}

\* What saveDocument does whenever the save operation it calls returns: at
\* most one operation; with saveAsNewDocument truthy only saveAs, under the
\* name given or else the document's, and its success is the value
\* returned; otherwise nothing and true for an unmodified document, and
\* else one save, whose success is the value returned, false when save
\* threw.
C30_OneOperation ==
  /\ Len(docCalls) <= 1
  /\ Truthy(saveAsNewDocument) => DocOps \subseteq {"saveAs"}
  /\ ~Truthy(saveAsNewDocument) => DocOps \subseteq {"save"}
  /\ ~Truthy(saveAsNewDocument) /\ ~isModified => docCalls = <<>>
  /\ pc = "returned" =>
       /\ error = <<>>
       /\ IF Truthy(saveAsNewDocument)
            THEN /\ DocOps = {"saveAs"}
                 /\ docCalls[1].name = nameOrDocName(saveName)
                 /\ returned = <<docCalls[1].outcome = "true">>
            ELSE IF ~isModified
                   THEN returned = <<TRUE>>
                   ELSE /\ DocOps = {"save"}
                        /\ returned = <<docCalls[1].outcome = "true">>
  /\ returned # <<>> => pc = "returned"
  /\ (docCalls # <<>> /\ docCalls[1].op = "save") => pc = "returned"

\* saveDocument reports every failure by the value it returns: no call
\* ends with an exception.
C30_FailureByValue == C30_OneOperation /\ pc # "threw" /\ error = <<>>

\* C30: saveDocument performs at most one save operation per call; with
\* saveAsNewDocument truthy it calls only saveAs and returns whether saveAs
\* succeeded, unless saveAs throws: that exception is not caught and
\* reaches the caller with nothing returned; otherwise an unmodified
\* document is not saved and the result is true, and a modified one is
\* saved once and the result is true on success and false when save
\* returns false or throws, so no exception of save reaches the caller.
C30_OnlySaveIsCaught ==
  /\ C30_OneOperation
  /\ pc = "threw" <=> (docCalls # <<>> /\ docCalls[1].op = "saveAs" /\ docCalls[1].outcome = "throws")
  /\ pc = "threw" <=> error # <<>>
  /\ pc = "threw" => returned = <<>>

\* saveAs threw and the call ended without a value.
C30_Witness == pc = "threw" /\ Truthy(saveAsNewDocument) /\ DocOps = {"saveAs"} /\ returned = <<>>

\* save threw and the call returned false.
C30_WitnessSaveThrew == pc = "returned" /\ docCalls # <<>> /\ docCalls[1].op = "save" /\ docCalls[1].outcome = "throws" /\ returned = <<FALSE>>

====
